---- MODULE Spec2Model ----
(***************************************************************************)
(* A model of svcspektrum's merge_databases management command: the merge *)
(* of the source databases ("boskovice", "letovice") into the "default"    *)
(* database.                                                               *)
(*                                                                         *)
(* The state is the contents of the databases, the in-memory identity     *)
(* maps of the running Command object (self.*_ids_map), the position of   *)
(* Command.handle in its sequence of perform_operation calls, and what    *)
(* the command wrote to stdout and to the logger.  One action stands for  *)
(* one perform_operation call: the phase function runs on the target      *)
(* inside transaction.atomic(), and its writes are committed when it      *)
(* returns and rolled back when it raises.                                 *)
(*                                                                         *)
(* Tables are sequences of rows in primary-key order.  The target assigns *)
(* primary keys densely (the id of a new row is the number of rows + 1).  *)
(* Of every entity the model carries its natural key, the foreign keys to *)
(* the entity types listed in EmptyDb, and the attributes a merger reads  *)
(* or rewrites.  Phases of entity types that are not listed there are     *)
(* modelled by the identity maps they create.                              *)
(***************************************************************************)
EXTENDS Integers, Sequences, FiniteSets, TLC

VARIABLES
    src,        \* the source databases: connection -> table name -> rows
    target,     \* the committed contents of the default database
    maps,       \* the identity maps held by the Command object: name -> map
    pc,         \* index in Phases of the next perform_operation call
    status,     \* "idle" | "running" | "failed" | "done"
    out,        \* stdout of the current run: one entry per started phase
    warnings,   \* logger.warning records of the current run
    runs,       \* number of runs of the command started so far
    failures,   \* number of faults the environment injected so far
    prev,       \* how the run before the current one ended (history)
    base,       \* target when the current run started (history)
    init,       \* the databases before the first run (history)
    migrated,   \* the runs of "leprikon migrate" of this run of the command:
                \* the settings and the return code of each
    call,       \* a call of ensure_unique_username on its own: its
                \* arguments and what it returned (<<>>: none)
    other,      \* a second process that runs the command at the same time:
                \* the maps of its Command object and where it is in
                \* merge_transactions (<<>>: there is none)
    admin       \* the last request to a view of ImportedIdsMapAdmin that
                \* writes, and the status of the response (<<>>: none yet)

vars == <<src, target, maps, pc, status, out, warnings, runs, failures,
          prev, base, init, migrated, call, other, admin>>

-----------------------------------------------------------------------------
(* Bounds *)

\* runs of the whole command in one behaviour
MaxRuns == 2
\* faults (storage errors, failing migrations) injected in one behaviour
MaxFailures == 1

-----------------------------------------------------------------------------
(* Values *)

\* Python's None, and the falsy id of "x and map[x]"
Null == 0

\* the sources in descending order of their names
import_connections_Reversed == <<"letovice", "boskovice">>

\* sorted(c for c in settings.DATABASES.keys() if c != "default")
import_connections == <<"boskovice", "letovice">>

Connections == {import_connections[i] : i \in DOMAIN import_connections}

\* ActivityModel
COURSE == "course"
EVENT == "event"
ORDERABLE == "orderable"

\* Activity.registration_type
PARTICIPANTS == "P"
GROUPS == "G"

\* the time of the merge, which auto_now_add fields are stamped with
Now == 9

-----------------------------------------------------------------------------
(* Strings that the code takes apart are sequences of characters *)

LowerChar(c) ==
    CASE c = "A" -> "a"
      [] c = "B" -> "b"
      [] c = "C" -> "c"
      [] OTHER -> c

\* a normalisation that keeps nothing of the string
lower_Blank(s) == <<>>

\* str.lower()
lower(s) == [i \in DOMAIN s |-> LowerChar(s[i])]

\* s[:n]
Prefix(s, n) == SubSeq(s, 1, IF Len(s) < n THEN Len(s) ELSE n)

\* s.split(sep)[0]
SplitFirst(s, sep) ==
    IF \E i \in DOMAIN s : s[i] = sep
    THEN SubSeq(s, 1, (CHOOSE i \in DOMAIN s :
                          /\ s[i] = sep
                          /\ \A j \in 1..(i - 1) : s[j] # sep) - 1)
    ELSE s

\* the values uuid4().hex[:3] is drawn from in the model
HexSuffixes == {<<"0", "0", "1">>, <<"0", "0", "2">>}

-----------------------------------------------------------------------------
(* Sequences, tables and dicts *)

FoldSeq(op(_, _), zero, seq) ==
    LET f[i \in 0..Len(seq)] == IF i = 0 THEN zero ELSE op(f[i - 1], seq[i])
    IN f[Len(seq)]

SeqRange(seq) == {seq[i] : i \in DOMAIN seq}

FilterSeq(seq, P(_)) ==
    FoldSeq(LAMBDA acc, x : IF P(x) THEN Append(acc, x) ELSE acc, <<>>, seq)

Ids(tbl) == {tbl[i].id : i \in DOMAIN tbl}

RowOf(tbl, id) == tbl[CHOOSE i \in DOMAIN tbl : tbl[i].id = id]

\* {K(row): V(row) for row in tbl}: a later row replaces an earlier one
DictOf(tbl, K(_), V(_)) ==
    [k \in {K(tbl[i]) : i \in DOMAIN tbl} |->
        V(tbl[CHOOSE i \in DOMAIN tbl :
                /\ K(tbl[i]) = k
                /\ \A j \in DOMAIN tbl : K(tbl[j]) = k => j <= i])]

\* d[k] = v
DictSet(d, k, v) == (k :> v) @@ d

\* d.get(k)
DictGet(d, k) == IF k \in DOMAIN d THEN d[k] ELSE Null

\* the tables of one database, all empty
EmptyDb ==
    [permissions |-> <<>>, groups |-> <<>>, users |-> <<>>,
     folders |-> <<>>, files |-> <<>>, images |-> <<>>,
     accounts |-> <<>>, statements |-> <<>>, bank_transactions |-> <<>>,
     print_setups |-> <<>>,
     school_years |-> <<>>, divisions |-> <<>>, periods |-> <<>>,
     leaders |-> <<>>, leader_contacts |-> <<>>,
     activity_types |-> <<>>, attachments |-> <<>>, pages |-> <<>>,
     activities |-> <<>>, variants |-> <<>>,
     registrations |-> <<>>, reg_participants |-> <<>>,
     reg_groups |-> <<>>, reg_group_members |-> <<>>,
     reg_billing_infos |-> <<>>,
     reg_periods |-> <<>>,
     course_discounts |-> <<>>, event_discounts |-> <<>>,
     orderable_discounts |-> <<>>,
     transactions |-> <<>>,
     timesheet_periods |-> <<>>, timesheets |-> <<>>,
     entry_types |-> <<>>, timesheet_entries |-> <<>>,
     resources |-> <<>>, availabilities |-> <<>>,
     messages |-> <<>>, message_recipients |-> <<>>,
     message_attachments |-> <<>>,
     site |-> [domain |-> "example.com", name |-> "example.com"],
     imported |-> {}]

\* the tables that hold rows
Tables == DOMAIN EmptyDb \ {"site", "imported"}

-----------------------------------------------------------------------------
(* The environment of a phase function: the target as the open            *)
(* transaction sees it, the sources, the maps of the Command object, the  *)
(* local variables of the function, and whether it has raised.            *)

\* fault and rnd are what the environment decides during the phase: the
\* failing step (0: none) and the value uuid4 draws.  cmds are the
\* subprocesses the function ran; hang: the function is in a loop that
\* does not end
NewEnv(db, s, m, fault, rnd) ==
    [db |-> db, src |-> s, maps |-> m, loc |-> <<>>, warn |-> <<>>,
     ok |-> TRUE, fault |-> fault, rnd |-> rnd, cmds |-> <<>>,
     hang |-> FALSE]

\* a lookup miss that is passed over
Raise_PassedOver(e) == e

\* an exception leaves the function: nothing after it is executed
Raise(e) == [e EXCEPT !.ok = FALSE]

\* the id the target gives the next row of table t
NextId(e, t) == Len(e.db[t]) + 1

\* copy(original): every field but the primary key
copy(original) == [original EXCEPT !.id = Null]

\* save(obj): obj.save(using="default", force_insert=True)
save(e, t, obj) ==
    [e EXCEPT !.db[t] = Append(@, [obj EXCEPT !.id = NextId(e, t)])]

\* obj.save() of an object that is a row of the target
update(e, t, obj) == [e EXCEPT !.db[t][obj.id] = obj]

\* a second save that writes nothing
save_update_fields_Skipped(e, t, id, field, value) == e

\* obj.save(update_fields=[field]) of the row id of table t, after
\* obj.<field> = value
save_update_fields(e, t, id, field, value) ==
    [e EXCEPT !.db[t][id][field] = value]

\* get_ids_map()
get_ids_map == [connection \in Connections |-> <<>>]

\* self.<name> = m
SetAttr(e, name, m) == [e EXCEPT !.maps = (name :> m) @@ @]

\* self.<name>[connection][foreign_id] = local_id
MapSet(e, name, connection, foreign_id, local_id) ==
    [e EXCEPT !.maps[name][connection] = (foreign_id :> local_id) @@ @]

\* foreign_id in self.<name>[connection]
Has(e, name, connection, foreign_id) ==
    foreign_id \in DOMAIN e.maps[name][connection]

\* self.<name>[connection][foreign_id] raises KeyError
Miss(e, name, connection, foreign_id) ==
    ~Has(e, name, connection, foreign_id)

\* foreign_id and self.<name>[connection][foreign_id] raises KeyError
MissOpt(e, name, connection, foreign_id) ==
    foreign_id # Null /\ ~Has(e, name, connection, foreign_id)

\* self.<name>[connection][foreign_id], when it does not raise
At(e, name, connection, foreign_id) ==
    e.maps[name][connection][foreign_id]

\* foreign_id and self.<name>[connection][foreign_id]
AndAt(e, name, connection, foreign_id) ==
    IF foreign_id = Null THEN foreign_id
    ELSE e.maps[name][connection][foreign_id]

\* self.<name>[connection].get(foreign_id)
GetAt(e, name, connection, foreign_id) ==
    IF Has(e, name, connection, foreign_id)
    THEN e.maps[name][connection][foreign_id]
    ELSE Null

\* for connection in import_connections: for row in <t>.objects.using(connection)
ForEachRow(step(_, _, _), e, t) ==
    FoldSeq(LAMBDA a, connection :
                FoldSeq(LAMBDA b, row :
                            IF b.ok THEN step(b, connection, row) ELSE b,
                        a, a.src[connection][t]),
            e, import_connections)

-----------------------------------------------------------------------------
(* PersistentIdsMap *)

\* a map that is loaded for the groups and starts empty, in every run, for
\* every other model
PersistentIdsMap_GroupsOnly(e, model_name) ==
    [connection \in Connections |->
        LET rows == {r \in e.db.imported :
                        /\ model_name = "auth-groups"
                        /\ r.model_name = model_name
                        /\ r.connection = connection}
        IN [f \in {r.foreign_id : r \in rows} |->
                (CHOOSE r \in rows : r.foreign_id = f).local_id]]

\* PersistentIdsMap.__init__
PersistentIdsMap(e, model_name) ==
    [connection \in Connections |->
        LET rows == {r \in e.db.imported :
                        /\ r.model_name = model_name
                        /\ r.connection = connection}
        IN [f \in {r.foreign_id : r \in rows} |->
                (CHOOSE r \in rows : r.foreign_id = f).local_id]]

\* a save that writes the map in place of the rows of the table
PersistentIdsMap_save_Replace(e, model_name, m) ==
    [e EXCEPT !.db.imported =
        UNION {{[model_name |-> model_name, connection |-> c,
                 foreign_id |-> f, local_id |-> m[c][f]] : f \in DOMAIN m[c]} :
               c \in Connections}]

\* a map that is never written to the table
PersistentIdsMap_save_Nothing(e, model_name, m) == e

\* a save that puts the entry of the map in place of the row of its key
PersistentIdsMap_save_Update(e, model_name, m) ==
    LET rows == UNION {{[model_name |-> model_name, connection |-> c,
                         foreign_id |-> f, local_id |-> m[c][f]] :
                            f \in DOMAIN m[c]} : c \in Connections}
    IN [e EXCEPT !.db.imported =
            {r \in @ : \/ r.model_name # model_name
                       \/ r.foreign_id \notin DOMAIN m[r.connection]}
                \cup rows]

\* PersistentIdsMap.save: bulk_create(..., ignore_conflicts=True) under the
\* unique constraint (connection, model_name, foreign_id)
PersistentIdsMap_save(e, model_name, m) ==
    LET taken(c, f) == \E r \in e.db.imported :
                          /\ r.model_name = model_name
                          /\ r.connection = c
                          /\ r.foreign_id = f
        rows == UNION {{[model_name |-> model_name, connection |-> c,
                         foreign_id |-> f, local_id |-> m[c][f]] :
                            f \in {g \in DOMAIN m[c] : ~taken(c, g)}} :
                       c \in Connections}
    IN [e EXCEPT !.db.imported = @ \cup rows]

-----------------------------------------------------------------------------
(* ensure_unique_username *)

UsernameWith(username, hex) == Prefix(username, 100) \o <<"-">> \o hex

\* the while loop never ends: every name it can draw is taken
Spins(username, usernames) ==
    \A h \in HexSuffixes : UsernameWith(username, h) \in usernames

\* the value the while loop ends with: a drawn name that is not taken
\* (rnd is the draw the loop tries first)
RandomUsername(username, usernames, rnd) ==
    IF UsernameWith(username, rnd) \notin usernames
        \/ Spins(username, usernames)
    THEN UsernameWith(username, rnd)
    ELSE UsernameWith(username,
            CHOOSE h \in HexSuffixes : UsernameWith(username, h) \notin usernames)

\* a function that goes to the random suffix when the name is taken
ensure_unique_username_Random(username, email, usernames, rnd) ==
    IF username \notin usernames
    THEN [value |-> username, warned |-> FALSE, returns |-> TRUE]
    ELSE [value |-> RandomUsername(username, usernames, rnd),
          warned |-> TRUE, returns |-> ~Spins(username, usernames)]

\* a function that returns the username it is given
ensure_unique_username_AsGiven(username, email, usernames, rnd) ==
    [value |-> username, warned |-> FALSE, returns |-> TRUE]

\* a function that logs no warning
ensure_unique_username_Silent(username, email, usernames, rnd) ==
    IF username \notin usernames
    THEN [value |-> username, warned |-> FALSE, returns |-> TRUE]
    ELSE IF SplitFirst(email, "@") \notin usernames
    THEN [value |-> SplitFirst(email, "@"), warned |-> FALSE, returns |-> TRUE]
    ELSE IF email \notin usernames
    THEN [value |-> email, warned |-> FALSE, returns |-> TRUE]
    ELSE [value |-> RandomUsername(username, usernames, rnd),
          warned |-> FALSE, returns |-> ~Spins(username, usernames)]

\* ensure_unique_username: the name, whether the warning was logged, and
\* whether the call returns (value and warned are those of a call that does)
ensure_unique_username(username, email, usernames, rnd) ==
    IF username \notin usernames
    THEN [value |-> username, warned |-> FALSE, returns |-> TRUE]
    ELSE IF SplitFirst(email, "@") \notin usernames
    THEN [value |-> SplitFirst(email, "@"), warned |-> FALSE, returns |-> TRUE]
    ELSE IF email \notin usernames
    THEN [value |-> email, warned |-> FALSE, returns |-> TRUE]
    ELSE [value |-> RandomUsername(username, usernames, rnd),
          warned |-> TRUE, returns |-> ~Spins(username, usernames)]

-----------------------------------------------------------------------------
(* The phase functions, in the order of Command.handle *)

\* subprocess.run(["leprikon", "migrate"]).returncode != 0
perform_local_migrations(e) ==
    LET returncode == IF e.fault # 0 THEN 1 ELSE 0
        ran == [e EXCEPT !.cmds = Append(@, [settings |-> "default",
                                              returncode |-> returncode])]
    IN IF returncode # 0 THEN Raise(ran) ELSE ran

configure_site(e) ==
    [e EXCEPT !.db.site = [domain |-> "svcspektrum.cz", name |-> "SVC Spektrum"]]

\* an update without the filter on file="": the placeholder for every file
fix_broken_files_Every(e) ==
    [e EXCEPT !.src =
        [c \in Connections |->
            [@[c] EXCEPT !.files =
                [i \in DOMAIN @ |->
                    [@[i] EXCEPT !.file = "filer_dummy/placeholder.txt"]]]]]

\* File.objects.using(connection).filter(...).update(file=...): a write to
\* the source, outside the transaction on the default database
fix_broken_files(e) ==
    LET fix(f) ==
            IF f.ctype = "image" /\ f.file = ""
            THEN [f EXCEPT !.file = "filer_dummy/placeholder.png"]
            ELSE IF f.ctype = "file" /\ f.file = ""
            THEN [f EXCEPT !.file = "filer_dummy/placeholder.txt"]
            ELSE f
    IN [e EXCEPT !.src =
            [c \in Connections |->
                [@[c] EXCEPT !.files = [i \in DOMAIN @ |-> fix(@[i])]]]]

\* a function that migrates every source and then raises if one failed
perform_foreign_migrations_All(e) ==
    LET ran == [e EXCEPT !.cmds = @ \o
                    [i \in DOMAIN import_connections |->
                        [settings |-> import_connections[i],
                         returncode |-> IF e.fault = i THEN 1 ELSE 0]]]
    IN IF e.fault \in DOMAIN import_connections THEN Raise(ran) ELSE ran

\* the migration of the fault-th connection exits with a non-zero code
perform_foreign_migrations(e) ==
    FoldSeq(LAMBDA a, i :
                IF ~a.ok THEN a
                ELSE LET returncode == IF a.fault = i THEN 1 ELSE 0
                         ran == [a EXCEPT !.cmds =
                                    Append(@, [settings |-> import_connections[i],
                                               returncode |-> returncode])]
                     IN IF returncode # 0 THEN Raise(ran) ELSE ran,
            e, [i \in DOMAIN import_connections |-> i])

load_auth_permissions_map(e) ==
    LET local_permission_ids ==
            DictOf(e.db.permissions, LAMBDA p : p.nk, LAMBDA p : p.id)
        step(a, connection, foreign_permission) ==
            LET local_permission_id ==
                    DictGet(local_permission_ids, foreign_permission.nk)
            IN IF local_permission_id # Null
               THEN MapSet(a, "permission_ids_map", connection,
                           foreign_permission.id, local_permission_id)
               ELSE a
    IN ForEachRow(step, SetAttr(e, "permission_ids_map", get_ids_map),
                  "permissions")

\* the permissions that are in the permission map, mapped
MappedPermissions(e, connection, permissions) ==
    {At(e, "permission_ids_map", connection, p) :
        p \in {q \in permissions : Has(e, "permission_ids_map", connection, q)}}

\* auth_group.name is unique: the insert of a group whose name a row of the
\* target has raises IntegrityError
merge_groups(e) ==
    LET step(a, connection, foreign_group) ==
            IF Has(a, "group_ids_map", connection, foreign_group.id)
            THEN a
            ELSE IF \E i \in DOMAIN a.db.groups :
                        a.db.groups[i].name = foreign_group.name
            THEN Raise(a)
            ELSE LET group == [copy(foreign_group) EXCEPT !.permissions = {}]
                     saved == save(a, "groups", group)
                     id == NextId(a, "groups")
                     set == [saved EXCEPT !.db.groups[id].permissions =
                                MappedPermissions(a, connection,
                                                  foreign_group.permissions)]
                 IN MapSet(set, "group_ids_map", connection,
                           foreign_group.id, id)
        merged == ForEachRow(step,
                    SetAttr(e, "group_ids_map",
                            PersistentIdsMap(e, "auth-groups")),
                    "groups")
    IN IF merged.ok
       THEN PersistentIdsMap_save(merged, "auth-groups",
                                  merged.maps["group_ids_map"])
       ELSE merged

\* a promotion that takes every name the source user has
promote_Overwrite(local_user, foreign_user) ==
    [local_user EXCEPT
        !.first_name = IF foreign_user.first_name # ""
                       THEN foreign_user.first_name ELSE @,
        !.last_name = IF foreign_user.last_name # ""
                      THEN foreign_user.last_name ELSE @,
        !.is_active = IF foreign_user.is_active /\ ~@ THEN TRUE ELSE @,
        !.is_staff = IF foreign_user.is_staff /\ ~@ THEN TRUE ELSE @,
        !.is_superuser = IF foreign_user.is_superuser /\ ~@ THEN TRUE ELSE @,
        !.date_joined = IF foreign_user.date_joined < @
                        THEN foreign_user.date_joined ELSE @]

\* a promotion that takes the flags and the join date of the source user
promote_Copy(local_user, foreign_user) ==
    [local_user EXCEPT
        !.first_name = IF foreign_user.first_name # "" /\ @ = ""
                       THEN foreign_user.first_name ELSE @,
        !.last_name = IF foreign_user.last_name # "" /\ @ = ""
                      THEN foreign_user.last_name ELSE @,
        !.is_active = foreign_user.is_active,
        !.is_staff = foreign_user.is_staff,
        !.is_superuser = foreign_user.is_superuser,
        !.date_joined = foreign_user.date_joined]

\* lines 292-313: the fields of the target user that the source user promotes
promote(local_user, foreign_user) ==
    [local_user EXCEPT
        !.first_name = IF foreign_user.first_name # "" /\ @ = ""
                       THEN foreign_user.first_name ELSE @,
        !.last_name = IF foreign_user.last_name # "" /\ @ = ""
                      THEN foreign_user.last_name ELSE @,
        !.is_active = IF foreign_user.is_active /\ ~@ THEN TRUE ELSE @,
        !.is_staff = IF foreign_user.is_staff /\ ~@ THEN TRUE ELSE @,
        !.is_superuser = IF foreign_user.is_superuser /\ ~@ THEN TRUE ELSE @,
        !.date_joined = IF foreign_user.date_joined < @
                        THEN foreign_user.date_joined ELSE @]

\* the email compared as the source wrote it
normalize_email_AsWritten(foreign_user) == foreign_user

\* foreign_user.email = foreign_user.email.lower()
normalize_email(foreign_user) == [foreign_user EXCEPT !.email = lower(@)]

merge_users(e) ==
    LET step(a, connection, user) ==
            LET foreign_user == normalize_email(user)
                known == foreign_user.email \in DOMAIN a.loc.users_by_email
                name == ensure_unique_username(foreign_user.username,
                            foreign_user.email, a.loc.usernames, a.rnd)
                new_id == NextId(a, "users")
                created ==
                    IF known THEN a
                    ELSE [save(a, "users",
                               [copy(foreign_user) EXCEPT
                                    !.username = name.value,
                                    !.groups = {},
                                    !.user_permissions = {}])
                          EXCEPT
                            !.loc.users_by_email =
                                DictSet(@, foreign_user.email, new_id),
                            !.loc.usernames = @ \cup {name.value},
                            !.warn = IF name.warned
                                     THEN Append(@, name.value) ELSE @]
                id == created.loc.users_by_email[foreign_user.email]
                local_user == created.db.users[id]
                promoted == promote(local_user, foreign_user)
                updated == IF promoted # local_user
                           THEN update(created, "users", promoted)
                           ELSE created
                group_miss == \E g \in foreign_user.groups :
                                Miss(a, "group_ids_map", connection, g)
                linked ==
                    [updated EXCEPT
                        !.db.users[id].groups = @ \cup
                            {At(a, "group_ids_map", connection, g) :
                                g \in foreign_user.groups},
                        !.db.users[id].user_permissions = @ \cup
                            MappedPermissions(a, connection,
                                foreign_user.user_permissions)]
            IN IF ~known /\ ~name.returns
               THEN [Raise(a) EXCEPT !.hang = TRUE]
               ELSE IF group_miss THEN Raise(updated)
               ELSE MapSet(linked, "user_ids_map", connection,
                           foreign_user.id, id)
        start == [SetAttr(e, "user_ids_map", get_ids_map) EXCEPT
                    !.loc = [users_by_email |->
                                DictOf(e.db.users, LAMBDA u : lower(u.email),
                                       LAMBDA u : u.id),
                             usernames |->
                                {e.db.users[i].username :
                                    i \in DOMAIN e.db.users}]]
    IN ForEachRow(step, start, "users")

\* one name for every source
capitalize_Same(connection) == "Import"

\* connection.capitalize()
capitalize(connection) ==
    CASE connection = "boskovice" -> "Boskovice"
      [] connection = "letovice" -> "Letovice"

\* Folder.objects.using("default").get_or_create(parent=..., name=...,
\* defaults=...): the environment after it and the id of the folder
get_or_create_folder(e, parent_id, name, owner_id) ==
    LET found == {i \in DOMAIN e.db.folders :
                    /\ e.db.folders[i].parent_id = parent_id
                    /\ e.db.folders[i].name = name}
    IN IF found = {}
       THEN [env |-> save(e, "folders",
                          [id |-> Null, name |-> name, parent_id |-> parent_id,
                           owner_id |-> owner_id]),
             id |-> NextId(e, "folders")]
       ELSE IF Cardinality(found) = 1
       THEN [env |-> e, id |-> CHOOSE i \in found : TRUE]
       ELSE [env |-> Raise(e), id |-> Null]

RECURSIVE merge_folder(_, _, _, _)
merge_folder(e, connection, local_parent_folder, foreign_folder) ==
    IF ~e.ok THEN e
    ELSE LET got == get_or_create_folder(e, local_parent_folder,
                        foreign_folder.name,
                        GetAt(e, "user_ids_map", connection,
                              foreign_folder.owner_id))
             mapped == MapSet(got.env, "folder_ids_map", connection,
                              foreign_folder.id, got.id)
             children == FilterSeq(e.src[connection].folders,
                            LAMBDA f : f.parent_id = foreign_folder.id)
         IN IF ~got.env.ok THEN got.env
            ELSE FoldSeq(LAMBDA a, child :
                            merge_folder(a, connection, got.id, child),
                         mapped, children)

merge_folders(e) ==
    LET per_connection(a, connection) ==
            IF ~a.ok THEN a
            ELSE LET root == get_or_create_folder(a, Null,
                                capitalize(connection), Null)
                     roots == FilterSeq(a.src[connection].folders,
                                LAMBDA f : f.parent_id = Null)
                 IN FoldSeq(LAMBDA b, foreign_root_folder :
                                merge_folder(b, connection, root.id,
                                             foreign_root_folder),
                            root.env, roots)
    IN FoldSeq(per_connection, SetAttr(e, "folder_ids_map", get_ids_map),
               import_connections)

\* order_by("-modified_at")
RECURSIVE NewestFirst(_)
NewestFirst(files) ==
    IF files = <<>> THEN <<>>
    ELSE LET i == CHOOSE k \in DOMAIN files :
                    /\ \A j \in DOMAIN files :
                            files[j].modified_at <= files[k].modified_at
                    /\ \A j \in 1..(k - 1) :
                            files[j].modified_at < files[k].modified_at
         IN <<files[i]>> \o
            NewestFirst(SubSeq(files, 1, i - 1)
                        \o SubSeq(files, i + 1, Len(files)))

\* a key of the content hash alone
get_key_Hash(f) == <<f.sha1>>

\* get_key(f) of merge_files
get_key(f) == <<f.folder_id, f.sha1>>

merge_files(e) ==
    LET file_step(a, connection, foreign_file) ==
            LET folder_id == GetAt(a, "folder_ids_map", connection,
                                   foreign_file.folder_id)
                local_file == [copy(foreign_file) EXCEPT
                                !.folder_id = folder_id,
                                !.owner_id = GetAt(a, "user_ids_map",
                                    connection, foreign_file.owner_id)]
                key == get_key([copy(foreign_file) EXCEPT
                                    !.folder_id = folder_id])
                saved == IF key \in DOMAIN a.loc.existing_file_ids THEN a
                         ELSE [save(a, "files", local_file) EXCEPT
                                !.loc.existing_file_ids =
                                    DictSet(@, key, NextId(a, "files"))]
            IN MapSet(saved, "file_ids_map", connection, foreign_file.id,
                      saved.loc.existing_file_ids[key])
        image_step(a, connection, foreign_image) ==
            IF Miss(a, "file_ids_map", connection, foreign_image.id)
            THEN Raise(a)
            ELSE LET pk == At(a, "file_ids_map", connection, foreign_image.id)
                 IN IF pk \in a.loc.existing_image_ids THEN a
                    ELSE [a EXCEPT
                            !.db.images = Append(@, [id |-> pk]),
                            !.loc.existing_image_ids = @ \cup {pk}]
        start == [SetAttr(e, "file_ids_map", get_ids_map) EXCEPT
                    !.loc = [existing_file_ids |->
                                DictOf(e.db.files, LAMBDA f : get_key(f),
                                       LAMBDA f : f.id),
                             existing_image_ids |-> Ids(e.db.images)]]
        files == FoldSeq(LAMBDA a, connection :
                            FoldSeq(LAMBDA b, f :
                                        IF b.ok THEN file_step(b, connection, f)
                                        ELSE b,
                                    a, NewestFirst(a.src[connection].files)),
                         start, import_connections)
    IN ForEachRow(image_step, files, "images")

merge_bank_accounts(e) ==
    LET step(a, connection, foreign_account) ==
            LET found == {i \in DOMAIN a.db.accounts :
                            a.db.accounts[i].name = foreign_account.name}
            IN IF found = {}
               THEN MapSet(save(a, "accounts", copy(foreign_account)),
                           "bank_account_ids_map", connection,
                           foreign_account.id, NextId(a, "accounts"))
               ELSE IF Cardinality(found) = 1
               THEN MapSet(a, "bank_account_ids_map", connection,
                           foreign_account.id, CHOOSE i \in found : TRUE)
               ELSE Raise(a)
    IN ForEachRow(step, SetAttr(e, "bank_account_ids_map", get_ids_map),
                  "accounts")

merge_bank_account_statements(e) ==
    LET step(a, connection, foreign_statement) ==
            IF Miss(a, "bank_account_ids_map", connection,
                    foreign_statement.account_id)
            THEN Raise(a)
            ELSE LET local_account_id ==
                        At(a, "bank_account_ids_map", connection,
                           foreign_statement.account_id)
                     key == <<local_account_id, foreign_statement.statement>>
                 IN IF key \in DOMAIN a.loc
                    THEN MapSet(a, "bank_account_statement_ids_map",
                                connection, foreign_statement.id, a.loc[key])
                    ELSE MapSet(save(a, "statements",
                                     [id |-> Null,
                                      account_id |-> local_account_id,
                                      statement |-> foreign_statement.statement]),
                                "bank_account_statement_ids_map", connection,
                                foreign_statement.id, NextId(a, "statements"))
        start == [SetAttr(e, "bank_account_statement_ids_map", get_ids_map)
                  EXCEPT !.loc = DictOf(e.db.statements,
                                    LAMBDA r : <<r.account_id, r.statement>>,
                                    LAMBDA r : r.id)]
    IN ForEachRow(step, start, "statements")

merge_bank_account_transactions(e) ==
    LET step(a, connection, foreign_transaction) ==
            IF \/ Miss(a, "bank_account_ids_map", connection,
                       foreign_transaction.account_id)
               \/ Miss(a, "bank_account_statement_ids_map", connection,
                       foreign_transaction.account_statement_id)
            THEN Raise(a)
            ELSE LET local_account_id ==
                        At(a, "bank_account_ids_map", connection,
                           foreign_transaction.account_id)
                     local_statement_id ==
                        At(a, "bank_account_statement_ids_map", connection,
                           foreign_transaction.account_statement_id)
                     key == <<local_account_id,
                              foreign_transaction.transaction_id>>
                 IN IF key \in DOMAIN a.loc
                    THEN MapSet(a, "bank_transaction_ids_map", connection,
                                foreign_transaction.id, a.loc[key])
                    ELSE MapSet(save(a, "bank_transactions",
                                     [copy(foreign_transaction) EXCEPT
                                        !.account_id = local_account_id,
                                        !.account_statement_id =
                                            local_statement_id]),
                                "bank_transaction_ids_map", connection,
                                foreign_transaction.id,
                                NextId(a, "bank_transactions"))
        start == [SetAttr(e, "bank_transaction_ids_map", get_ids_map)
                  EXCEPT !.loc = DictOf(e.db.bank_transactions,
                                    LAMBDA r : <<r.account_id, r.transaction_id>>,
                                    LAMBDA r : r.id)]
    IN ForEachRow(step, start, "bank_transactions")

merge_print_setups(e) ==
    LET step(a, connection, foreign_print_setup) ==
            IF foreign_print_setup.name \in DOMAIN a.loc
            THEN MapSet(a, "print_setup_ids_map", connection,
                        foreign_print_setup.id,
                        a.loc[foreign_print_setup.name])
            ELSE IF MissOpt(a, "file_ids_map", connection,
                            foreign_print_setup.background_id)
            THEN Raise(a)
            ELSE MapSet(save(a, "print_setups",
                             [copy(foreign_print_setup) EXCEPT
                                !.background_id =
                                    AndAt(a, "file_ids_map", connection,
                                          foreign_print_setup.background_id)]),
                        "print_setup_ids_map", connection,
                        foreign_print_setup.id, NextId(a, "print_setups"))
        start == [SetAttr(e, "print_setup_ids_map", get_ids_map)
                  EXCEPT !.loc = DictOf(e.db.print_setups,
                                    LAMBDA r : r.name, LAMBDA r : r.id)]
    IN ForEachRow(step, start, "print_setups")

\* sorted(s) of a set of numbers
RECURSIVE sorted(_)
sorted(s) ==
    IF s = {} THEN <<>>
    ELSE LET m == CHOOSE x \in s : \A y \in s : x <= y
         IN <<m>> \o sorted(s \ {m})

merge_school_years(e) ==
    LET all_years == UNION {{e.src[c].school_years[i].year :
                                i \in DOMAIN e.src[c].school_years} :
                            c \in Connections}
        create(a, year) ==
            IF year \in DOMAIN a.loc THEN a
            ELSE [save(a, "school_years",
                       [id |-> Null, year |-> year, active |-> FALSE])
                  EXCEPT !.loc = DictSet(@, year, NextId(a, "school_years"))]
        start == [SetAttr(e, "school_year_ids_map", get_ids_map)
                  EXCEPT !.loc = DictOf(e.db.school_years,
                                    LAMBDA r : r.year, LAMBDA r : r.id)]
        step(a, connection, foreign_school_year) ==
            LET id == a.loc[foreign_school_year.year]
                mapped == MapSet(a, "school_year_ids_map", connection,
                                 foreign_school_year.id, id)
            IN IF foreign_school_year.active /\ ~a.db.school_years[id].active
               THEN [mapped EXCEPT !.db.school_years[id].active = TRUE]
               ELSE mapped
    IN ForEachRow(step, FoldSeq(create, start, sorted(all_years)),
                  "school_years")

merge_school_year_divisions(e) ==
    LET step(a, connection, foreign_division) ==
            IF Miss(a, "school_year_ids_map", connection,
                    foreign_division.school_year_id)
            THEN Raise(a)
            ELSE LET school_year_id ==
                        At(a, "school_year_ids_map", connection,
                           foreign_division.school_year_id)
                     key == <<school_year_id, foreign_division.name>>
                     saved ==
                        IF key \in DOMAIN a.loc THEN a
                        ELSE [save(a, "divisions",
                                   [copy(foreign_division) EXCEPT
                                        !.school_year_id = school_year_id])
                              EXCEPT !.loc =
                                DictSet(@, key, NextId(a, "divisions"))]
                 IN MapSet(saved, "school_year_division_ids_map", connection,
                           foreign_division.id, saved.loc[key])
        start == [SetAttr(e, "school_year_division_ids_map", get_ids_map)
                  EXCEPT !.loc = DictOf(e.db.divisions,
                                    LAMBDA r : <<r.school_year_id, r.name>>,
                                    LAMBDA r : r.id)]
    IN ForEachRow(step, start, "divisions")

merge_school_year_periods(e) ==
    LET step(a, connection, foreign_period) ==
            IF Miss(a, "school_year_division_ids_map", connection,
                    foreign_period.school_year_division_id)
            THEN Raise(a)
            ELSE LET school_year_division_id ==
                        At(a, "school_year_division_ids_map", connection,
                           foreign_period.school_year_division_id)
                     key == <<school_year_division_id, foreign_period.name>>
                     saved ==
                        IF key \in DOMAIN a.loc THEN a
                        ELSE [save(a, "periods",
                                   [copy(foreign_period) EXCEPT
                                        !.school_year_division_id =
                                            school_year_division_id])
                              EXCEPT !.loc =
                                DictSet(@, key, NextId(a, "periods"))]
                 IN MapSet(saved, "school_year_period_ids_map", connection,
                           foreign_period.id, saved.loc[key])
        start == [SetAttr(e, "school_year_period_ids_map", get_ids_map)
                  EXCEPT !.loc = DictOf(e.db.periods,
                                    LAMBDA r : <<r.school_year_division_id, r.name>>,
                                    LAMBDA r : r.id)]
    IN ForEachRow(step, start, "periods")

\* a matched leader that gets the school years and the contacts of the
\* source record
existing_leader_WithChildren(a, connection, foreign_leader, local_leader_id) ==
    MapSet(FoldSeq(LAMBDA b, foreign_contact :
                        save(b, "leader_contacts",
                             [copy(foreign_contact) EXCEPT
                                !.leader_id = local_leader_id]),
                   [a EXCEPT !.db.leaders[local_leader_id].school_years =
                        @ \cup {GetAt(a, "school_year_ids_map", connection, y) :
                                    y \in foreign_leader.school_years}],
                   FilterSeq(a.src[connection].leader_contacts,
                             LAMBDA c : c.leader_id = foreign_leader.id)),
           "leader_ids_map", connection, foreign_leader.id, local_leader_id)

\* a matched leader that is left out of the map
existing_leader_Unmapped(a, connection, foreign_leader, local_leader_id) == a

\* a matched leader whose photo is taken from the source record
existing_leader_Updated(a, connection, foreign_leader, local_leader_id) ==
    MapSet([a EXCEPT !.db.leaders[local_leader_id].photo_id =
                GetAt(a, "file_ids_map", connection, foreign_leader.photo_id)],
           "leader_ids_map", connection, foreign_leader.id, local_leader_id)

\* the source leader whose target user has a leader already: local_leader_id
\* is not None, the if is skipped and the map is written
existing_leader(a, connection, foreign_leader, local_leader_id) ==
    MapSet(a, "leader_ids_map", connection, foreign_leader.id,
           local_leader_id)

merge_leaders(e) ==
    LET step(a, connection, foreign_leader) ==
            IF Miss(a, "user_ids_map", connection, foreign_leader.user_id)
            THEN Raise(a)
            ELSE
            LET user_id == At(a, "user_ids_map", connection,
                              foreign_leader.user_id)
                id == NextId(a, "leaders")
                leader == [copy(foreign_leader) EXCEPT
                            !.user_id = user_id,
                            !.photo_id = AndAt(a, "file_ids_map", connection,
                                               foreign_leader.photo_id),
                            !.school_years = {}]
                saved == save(a, "leaders", leader)
                years == [saved EXCEPT !.db.leaders[id].school_years =
                            {At(a, "school_year_ids_map", connection, y) :
                                y \in foreign_leader.school_years}]
                contacts == FilterSeq(a.src[connection].leader_contacts,
                                LAMBDA c : c.leader_id = foreign_leader.id)
                with_contacts ==
                    FoldSeq(LAMBDA b, foreign_contact :
                                save(b, "leader_contacts",
                                     [copy(foreign_contact) EXCEPT
                                        !.leader_id = id]),
                            years, contacts)
            IN IF user_id \in DOMAIN a.loc
               THEN existing_leader(a, connection, foreign_leader,
                                    a.loc[user_id])
               ELSE IF MissOpt(a, "file_ids_map", connection,
                               foreign_leader.photo_id)
               THEN Raise(a)
               ELSE IF \E y \in foreign_leader.school_years :
                            Miss(a, "school_year_ids_map", connection, y)
               THEN Raise(saved)
               ELSE MapSet([with_contacts EXCEPT
                                !.loc = DictSet(@, user_id, id)],
                           "leader_ids_map", connection,
                           foreign_leader.id, id)
        start == [SetAttr(e, "leader_ids_map", get_ids_map)
                  EXCEPT !.loc = DictOf(e.db.leaders,
                                    LAMBDA r : r.user_id, LAMBDA r : r.id)]
    IN ForEachRow(step, start, "leaders")

merge_activity_types(e) ==
    LET attachment_step(b, connection, local_activity_type_id,
                        foreign_attachment) ==
            LET key == <<local_activity_type_id, foreign_attachment.file_id>>
            IN IF ~b.ok \/ key \in b.loc.existing_attachments THEN b
               ELSE IF Miss(b, "file_ids_map", connection,
                            foreign_attachment.file_id)
               THEN Raise(b)
               ELSE [save(b, "attachments",
                          [copy(foreign_attachment) EXCEPT
                            !.activity_type_id = local_activity_type_id,
                            !.file_id = At(b, "file_ids_map", connection,
                                           foreign_attachment.file_id)])
                     EXCEPT !.loc.existing_attachments = @ \cup {key}]
        step(a, connection, foreign_activity_type) ==
            LET known == foreign_activity_type.slug
                            \in DOMAIN a.loc.existing_activity_types
                activity_type ==
                    [copy(foreign_activity_type) EXCEPT
                        !.page = Null,
                        !.reg_print_setup_id =
                            AndAt(a, "print_setup_ids_map", connection, @)]
                saved ==
                    IF known THEN a
                    ELSE [save(a, "activity_types", activity_type) EXCEPT
                            !.loc.existing_activity_types =
                                DictSet(@, foreign_activity_type.slug,
                                        NextId(a, "activity_types"))]
                local_activity_type_id ==
                    saved.loc.existing_activity_types[foreign_activity_type.slug]
                attachments ==
                    FilterSeq(a.src[connection].attachments,
                        LAMBDA t : t.activity_type_id = foreign_activity_type.id)
                attached ==
                    FoldSeq(LAMBDA b, foreign_attachment :
                                attachment_step(b, connection,
                                    local_activity_type_id, foreign_attachment),
                            saved, attachments)
            IN IF ~known /\ MissOpt(a, "print_setup_ids_map", connection,
                                    foreign_activity_type.reg_print_setup_id)
               THEN Raise(a)
               ELSE IF ~attached.ok THEN attached
               ELSE MapSet(attached, "activity_type_ids_map", connection,
                           foreign_activity_type.id, local_activity_type_id)
        start == [SetAttr(e, "activity_type_ids_map", get_ids_map) EXCEPT
                    !.loc = [existing_activity_types |->
                                DictOf(e.db.activity_types,
                                       LAMBDA r : r.slug, LAMBDA r : r.id),
                             existing_attachments |->
                                {<<e.db.attachments[i].activity_type_id,
                                   e.db.attachments[i].file_id>> :
                                    i \in DOMAIN e.db.attachments}]]
    IN ForEachRow(step, start, "activity_types")

merge_resources(e) ==
    LET step(a, connection, foreign_resource) ==
            LET id == NextId(a, "resources")
                saved == save(a, "resources",
                            [copy(foreign_resource) EXCEPT
                                !.leader_id =
                                    AndAt(a, "leader_ids_map", connection, @)])
                availabilities ==
                    FilterSeq(a.src[connection].availabilities,
                              LAMBDA v : v.resource_id = foreign_resource.id)
                with_availabilities ==
                    FoldSeq(LAMBDA b, foreign_availability :
                                save(b, "availabilities",
                                     [copy(foreign_availability) EXCEPT
                                        !.resource_id = id]),
                            saved, availabilities)
            IN IF foreign_resource.name \in DOMAIN a.loc
               THEN MapSet(a, "resource_ids_map", connection,
                           foreign_resource.id, a.loc[foreign_resource.name])
               ELSE IF MissOpt(a, "leader_ids_map", connection,
                               foreign_resource.leader_id)
               THEN Raise(a)
               ELSE MapSet([with_availabilities EXCEPT
                                !.loc = DictSet(@, foreign_resource.name, id)],
                           "resource_ids_map", connection,
                           foreign_resource.id, id)
        start == [SetAttr(e, "resource_ids_map", get_ids_map)
                  EXCEPT !.loc = DictOf(e.db.resources,
                                    LAMBDA r : r.name, LAMBDA r : r.id)]
    IN ForEachRow(step, start, "resources")

\* a loop over all activity types, without filter(page=None)
create_activity_type_pages_All(e) ==
    FoldSeq(LAMBDA a, activity_type :
                [save(a, "pages", [id |-> Null, slug |-> activity_type.slug])
                 EXCEPT !.db.activity_types[activity_type.id].page =
                            NextId(a, "pages")],
            e, e.db.activity_types)

\* create_page(...) of the publishing collaborator returns a new page
create_activity_type_pages(e) ==
    FoldSeq(LAMBDA a, activity_type :
                IF activity_type.page # Null THEN a
                ELSE [save(a, "pages",
                           [id |-> Null, slug |-> activity_type.slug])
                      EXCEPT !.db.activity_types[activity_type.id].page =
                                NextId(a, "pages")],
            e, e.db.activity_types)

\* the model of no activity type (None), and the kind of an activity that
\* has no course, event or orderable row
NoModel == ""

\* the activity type model of an activity of a source (None when the
\* activity has no activity type there)
ModelOf(s, activity_type_id) ==
    IF activity_type_id \in Ids(s.activity_types)
    THEN RowOf(s.activity_types, activity_type_id).model
    ELSE NoModel

\* model.objects.using(connection).exclude(activity_type__model=...) and its
\* update: writes to the source, outside the transaction on the default
fix_activities(e) ==
    LET fix(a, pair) ==
            LET activity_model == pair[1]
                connection == pair[2]
                s == a.src[connection]
                invalid == {i \in DOMAIN s.activities :
                                /\ s.activities[i].kind = activity_model
                                /\ ModelOf(s, s.activities[i].activity_type_id)
                                        # activity_model}
                types == {i \in DOMAIN s.activity_types :
                                s.activity_types[i].model = activity_model}
                first == s.activity_types[CHOOSE i \in types :
                                            \A j \in types : i <= j]
            IN IF ~a.ok \/ invalid = {} THEN a
               ELSE IF types = {} THEN Raise(a)
               ELSE [a EXCEPT !.src[connection].activities =
                        [i \in DOMAIN @ |->
                            IF i \in invalid
                            THEN [@[i] EXCEPT !.activity_type_id = first.id]
                            ELSE @[i]]]
    IN FoldSeq(fix, e,
               <<<<COURSE, import_connections[1]>>,
                 <<COURSE, import_connections[2]>>,
                 <<EVENT, import_connections[1]>>,
                 <<EVENT, import_connections[2]>>,
                 <<ORDERABLE, import_connections[1]>>,
                 <<ORDERABLE, import_connections[2]>>>>)

\* a check that takes every discriminator for a known one
NoVariant_Known(model, kind) ==
    model \in {COURSE, EVENT, ORDERABLE} /\ kind # model

\* copy(foreign.course | .event | .orderable) raises when the discriminator
\* is unknown or the record has no row of that variant
NoVariant(model, kind) ==
    model \notin {COURSE, EVENT, ORDERABLE} \/ kind # model

merge_activities(e) ==
    LET step(a, connection, foreign_activity) ==
            IF Has(a, "activity_ids_map", connection, foreign_activity.id)
            THEN a
            ELSE IF \/ NoVariant(ModelOf(a.src[connection],
                                         foreign_activity.activity_type_id),
                                 foreign_activity.kind)
                    \/ Miss(a, "school_year_ids_map", connection,
                            foreign_activity.school_year_id)
                    \/ Miss(a, "activity_type_ids_map", connection,
                            foreign_activity.activity_type_id)
                    \/ MissOpt(a, "file_ids_map", connection,
                               foreign_activity.photo_id)
            THEN Raise(a)
            ELSE MapSet(save(a, "activities",
                             [copy(foreign_activity) EXCEPT
                                !.school_year_id =
                                    At(a, "school_year_ids_map", connection, @),
                                !.activity_type_id =
                                    At(a, "activity_type_ids_map", connection, @),
                                !.photo_id =
                                    AndAt(a, "file_ids_map", connection, @)]),
                        "activity_ids_map", connection, foreign_activity.id,
                        NextId(a, "activities"))
        merged == ForEachRow(step,
                    SetAttr(e, "activity_ids_map",
                            PersistentIdsMap(e, "activities")),
                    "activities")
    IN IF merged.ok
       THEN PersistentIdsMap_save(merged, "activities",
                                  merged.maps["activity_ids_map"])
       ELSE merged

merge_activity_variants(e) ==
    LET step(a, connection, foreign_variant) ==
            IF Has(a, "activity_variant_ids_map", connection, foreign_variant.id)
            THEN a
            ELSE IF \/ Miss(a, "activity_ids_map", connection,
                            foreign_variant.activity_id)
                    \/ MissOpt(a, "school_year_division_ids_map", connection,
                               foreign_variant.school_year_division_id)
            THEN Raise(a)
            ELSE MapSet(save(a, "variants",
                             [copy(foreign_variant) EXCEPT
                                !.activity_id =
                                    At(a, "activity_ids_map", connection, @),
                                !.school_year_division_id =
                                    AndAt(a, "school_year_division_ids_map",
                                          connection, @)]),
                        "activity_variant_ids_map", connection,
                        foreign_variant.id, NextId(a, "variants"))
        merged == ForEachRow(step,
                    SetAttr(e, "activity_variant_ids_map",
                            PersistentIdsMap(e, "activity-variants")),
                    "variants")
    IN IF merged.ok
       THEN PersistentIdsMap_save(merged, "activity-variants",
                                  merged.maps["activity_variant_ids_map"])
       ELSE merged

\* F("activity__activity_type__model") and F("activity__registration_type")
\* of a registration of source s (None when the join finds nothing)
ActivityOf(s, activity_id) ==
    IF activity_id \in Ids(s.activities)
    THEN RowOf(s.activities, activity_id)
    ELSE [activity_type_id |-> Null, registration_type |-> Null]

\* a participant that is saved and not entered in the map
participant_step_Unmapped(b, connection, id, foreign_participant) ==
    save(b, "reg_participants",
         [copy(foreign_participant) EXCEPT !.registration_id = id])

\* the body of "for foreign_participant in
\* foreign_registration.participants.all()"
participant_step(b, connection, id, foreign_participant) ==
    MapSet(save(b, "reg_participants",
                [copy(foreign_participant) EXCEPT !.registration_id = id]),
           "registration_participant_ids_map", connection,
           foreign_participant.id, NextId(b, "reg_participants"))

\* the rows of table t of a source that belong to a registration
Nested(s, t, registration_id) ==
    FilterSeq(s[t], LAMBDA x : x.registration_id = registration_id)

merge_registrations(e) ==
    LET nested_step(b, id, t, foreign_row) ==
            save(b, t, [copy(foreign_row) EXCEPT !.registration_id = id])
        step(a, connection, foreign_registration) ==
            LET activity == ActivityOf(a.src[connection],
                                       foreign_registration.activity_id)
                activity_type_model ==
                    ModelOf(a.src[connection], activity.activity_type_id)
                id == NextId(a, "registrations")
                registration ==
                    [copy(foreign_registration) EXCEPT
                        !.user_id = At(a, "user_ids_map", connection, @),
                        !.activity_id = At(a, "activity_ids_map", connection, @),
                        !.activity_variant_id =
                            At(a, "activity_variant_ids_map", connection, @),
                        !.created_by_id =
                            AndAt(a, "user_ids_map", connection, @),
                        !.created = Now]
                saved == save(a, "registrations", registration)
                dated == save_update_fields(saved, "registrations", id,
                            "created", foreign_registration.created)
                of(t) == Nested(a.src[connection], t, foreign_registration.id)
                with_participants ==
                    FoldSeq(LAMBDA b, foreign_participant :
                                participant_step(b, connection, id,
                                                 foreign_participant),
                            dated, of("reg_participants"))
                \* foreign_registration.group raises when there is none
                with_group ==
                    IF of("reg_groups") = <<>> THEN Raise(dated)
                    ELSE FoldSeq(LAMBDA b, foreign_group_member :
                                    nested_step(b, id, "reg_group_members",
                                                foreign_group_member),
                                 nested_step(dated, id, "reg_groups",
                                             of("reg_groups")[1]),
                                 of("reg_group_members"))
                with_children ==
                    IF activity.registration_type = PARTICIPANTS
                    THEN with_participants
                    ELSE IF activity.registration_type = GROUPS
                    THEN with_group
                    ELSE dated
                with_billing_info ==
                    IF with_children.ok /\ of("reg_billing_infos") # <<>>
                    THEN nested_step(with_children, id, "reg_billing_infos",
                                     of("reg_billing_infos")[1])
                    ELSE with_children
            IN IF Has(a, "registration_ids_map", connection,
                      foreign_registration.id)
               THEN a
               ELSE IF \/ NoVariant(activity_type_model,
                                    foreign_registration.kind)
                       \/ Miss(a, "user_ids_map", connection,
                               foreign_registration.user_id)
                       \/ Miss(a, "activity_ids_map", connection,
                               foreign_registration.activity_id)
                       \/ Miss(a, "activity_variant_ids_map", connection,
                               foreign_registration.activity_variant_id)
                       \/ MissOpt(a, "user_ids_map", connection,
                                  foreign_registration.created_by_id)
               THEN Raise(a)
               ELSE IF ~with_billing_info.ok THEN with_billing_info
               ELSE MapSet(with_billing_info, "registration_ids_map",
                           connection, foreign_registration.id, id)
        start == SetAttr(SetAttr(e, "registration_ids_map",
                                 PersistentIdsMap(e, "registrations")),
                         "registration_participant_ids_map",
                         PersistentIdsMap(e, "registration-participants"))
        merged == ForEachRow(step, start, "registrations")
    IN IF merged.ok
       THEN PersistentIdsMap_save(
                PersistentIdsMap_save(merged, "registrations",
                                      merged.maps["registration_ids_map"]),
                "registration-participants",
                merged.maps["registration_participant_ids_map"])
       ELSE merged

merge_course_registration_periods(e) ==
    LET step(a, connection, foreign_registration_period) ==
            IF \/ Miss(a, "registration_ids_map", connection,
                       foreign_registration_period.registration_id)
               \/ Miss(a, "school_year_period_ids_map", connection,
                       foreign_registration_period.period_id)
            THEN Raise(a)
            ELSE LET local_registration_id ==
                        At(a, "registration_ids_map", connection,
                           foreign_registration_period.registration_id)
                     local_period_id ==
                        At(a, "school_year_period_ids_map", connection,
                           foreign_registration_period.period_id)
                 IN IF <<local_registration_id, local_period_id>> \in a.loc
                    THEN a
                    ELSE save(a, "reg_periods",
                              [copy(foreign_registration_period) EXCEPT
                                !.registration_id = local_registration_id,
                                !.period_id = local_period_id])
        start == [e EXCEPT !.loc =
                    {<<e.db.reg_periods[i].registration_id,
                       e.db.reg_periods[i].period_id>> :
                        i \in DOMAIN e.db.reg_periods}]
    IN ForEachRow(step, start, "reg_periods")

\* the (model, name) pairs of merge_discounts
DiscountModels ==
    <<[table |-> "course_discounts", name |-> "course-discounts"],
      [table |-> "event_discounts", name |-> "event-discounts"],
      [table |-> "orderable_discounts", name |-> "orderable-discounts"]>>

\* a test that skips the mapped discounts only
skip_discount_Mapped(ids, foreign_discount) ==
    foreign_discount.id \in DOMAIN ids

\* foreign_discount.id in discount_ids_map[connection]
\*     or foreign_discount.amount == 0
skip_discount(ids, foreign_discount) ==
    \/ foreign_discount.id \in DOMAIN ids
    \/ foreign_discount.amount = 0

merge_discounts(e) ==
    LET step(a, connection, foreign_discount, table) ==
            IF skip_discount(a.loc[connection], foreign_discount)
            THEN a
            ELSE IF \/ Miss(a, "registration_ids_map", connection,
                            foreign_discount.registration_id)
                    \/ MissOpt(a, "user_ids_map", connection,
                               foreign_discount.accounted_by_id)
            THEN Raise(a)
            ELSE [save(a, table,
                       [copy(foreign_discount) EXCEPT
                            !.registration_id =
                                At(a, "registration_ids_map", connection, @),
                            !.registration_period_id =
                                foreign_discount.registration_period_id,
                            !.accounted_by_id =
                                AndAt(a, "user_ids_map", connection, @)])
                  EXCEPT !.loc[connection] =
                            (foreign_discount.id :> NextId(a, table)) @@ @]
        per_model(a, m) ==
            IF ~a.ok THEN a
            ELSE LET start == [a EXCEPT !.loc = PersistentIdsMap(a, m.name)]
                     merged == ForEachRow(
                                LAMBDA b, connection, foreign_discount :
                                    step(b, connection, foreign_discount,
                                         m.table),
                                start, m.table)
                 IN IF merged.ok
                    THEN PersistentIdsMap_save(merged, m.name, merged.loc)
                    ELSE merged
    IN FoldSeq(per_model, e, DiscountModels)

\* merge_transactions from the statement after the one that loads the map,
\* with the map it loaded
merge_transactions_loaded(e, transaction_ids_map) ==
    LET step(a, connection, foreign_transaction) ==
            IF Has(a, "transaction_ids_map", connection, foreign_transaction.id)
            THEN a
            ELSE IF \/ MissOpt(a, "user_ids_map", connection,
                               foreign_transaction.accounted_by_id)
                    \/ MissOpt(a, "registration_ids_map", connection,
                               foreign_transaction.source_registration_id)
                    \/ MissOpt(a, "registration_ids_map", connection,
                               foreign_transaction.target_registration_id)
                    \/ MissOpt(a, "bank_transaction_ids_map", connection,
                               foreign_transaction.bankreader_transaction_id)
            THEN Raise(a)
            ELSE MapSet(save(a, "transactions",
                             [copy(foreign_transaction) EXCEPT
                                !.accounted_by_id =
                                    AndAt(a, "user_ids_map", connection, @),
                                !.source_registration_id =
                                    AndAt(a, "registration_ids_map",
                                          connection, @),
                                !.target_registration_id =
                                    AndAt(a, "registration_ids_map",
                                          connection, @),
                                !.bankreader_transaction_id =
                                    AndAt(a, "bank_transaction_ids_map",
                                          connection, @)]),
                        "transaction_ids_map", connection,
                        foreign_transaction.id, NextId(a, "transactions"))
        merged == ForEachRow(step,
                    SetAttr(e, "transaction_ids_map", transaction_ids_map),
                    "transactions")
    IN IF merged.ok
       THEN PersistentIdsMap_save(merged, "transactions",
                                  merged.maps["transaction_ids_map"])
       ELSE merged

merge_transactions(e) ==
    merge_transactions_loaded(e, PersistentIdsMap(e, "transactions"))

\* sorted(s) of a set of (start, end) pairs
RECURSIVE sorted_ranges(_)
sorted_ranges(s) ==
    IF s = {} THEN <<>>
    ELSE LET m == CHOOSE x \in s :
                    \A y \in s : \/ x[1] < y[1]
                                 \/ x[1] = y[1] /\ x[2] <= y[2]
         IN <<m>> \o sorted_ranges(s \ {m})

merge_timesheets(e) ==
    LET all_period_ranges ==
            UNION {{<<e.src[c].timesheet_periods[i].start,
                      e.src[c].timesheet_periods[i].end>> :
                        i \in DOMAIN e.src[c].timesheet_periods} :
                   c \in Connections}
        \* bulk_create(..., ignore_conflicts=True): start and end are unique
        create(a, range) ==
            IF \E i \in DOMAIN a.db.timesheet_periods :
                    \/ a.db.timesheet_periods[i].start = range[1]
                    \/ a.db.timesheet_periods[i].end = range[2]
            THEN a
            ELSE save(a, "timesheet_periods",
                      [id |-> Null, start |-> range[1], end |-> range[2]])
        created == FoldSeq(create, e, sorted_ranges(all_period_ranges))
        existing_timesheet_periods ==
            DictOf(created.db.timesheet_periods,
                   LAMBDA tp : <<tp.start, tp.end>>, LAMBDA tp : tp.id)
        period_step(a, connection, foreign_tp) ==
            LET key == <<foreign_tp.start, foreign_tp.end>>
            IN IF key \notin DOMAIN existing_timesheet_periods THEN Raise(a)
               ELSE [a EXCEPT !.loc[connection] =
                        (foreign_tp.id :> existing_timesheet_periods[key]) @@ @]
        periods == ForEachRow(period_step,
                              [created EXCEPT !.loc = get_ids_map],
                              "timesheet_periods")
        step(a, connection, foreign_timesheet) ==
            IF Has(a, "timesheet_ids_map", connection, foreign_timesheet.id)
            THEN a
            ELSE IF \/ foreign_timesheet.period_id \notin DOMAIN a.loc[connection]
                    \/ Miss(a, "leader_ids_map", connection,
                            foreign_timesheet.leader_id)
            THEN Raise(a)
            ELSE MapSet(save(a, "timesheets",
                             [copy(foreign_timesheet) EXCEPT
                                !.period_id = a.loc[connection][@],
                                !.leader_id =
                                    At(a, "leader_ids_map", connection, @)]),
                        "timesheet_ids_map", connection,
                        foreign_timesheet.id, NextId(a, "timesheets"))
        merged == IF periods.ok
                  THEN ForEachRow(step,
                            SetAttr(periods, "timesheet_ids_map",
                                    PersistentIdsMap(periods, "timesheets")),
                            "timesheets")
                  ELSE periods
    IN IF merged.ok
       THEN PersistentIdsMap_save(merged, "timesheets",
                                  merged.maps["timesheet_ids_map"])
       ELSE merged

merge_timesheet_entries(e) ==
    LET existing_entry_types ==
            DictOf(e.db.entry_types, LAMBDA t : t.name, LAMBDA t : t.id)
        type_step(a, connection, foreign_timesheet_entry_type) ==
            IF DictGet(existing_entry_types,
                       foreign_timesheet_entry_type.name) # Null
            THEN [a EXCEPT !.loc[connection] =
                    (foreign_timesheet_entry_type.id :>
                        existing_entry_types[foreign_timesheet_entry_type.name])
                    @@ @]
            ELSE [save(a, "entry_types", copy(foreign_timesheet_entry_type))
                  EXCEPT !.loc[connection] =
                    (foreign_timesheet_entry_type.id :>
                        NextId(a, "entry_types")) @@ @]
        types == ForEachRow(type_step, [e EXCEPT !.loc = get_ids_map],
                            "entry_types")
        step(a, connection, foreign_entry) ==
            IF Has(a, "timesheet_entry_ids_map", connection, foreign_entry.id)
            THEN a
            ELSE IF \/ Miss(a, "timesheet_ids_map", connection,
                            foreign_entry.timesheet_id)
                    \/ foreign_entry.entry_type_id
                            \notin DOMAIN a.loc[connection]
            THEN Raise(a)
            ELSE MapSet(save(a, "timesheet_entries",
                             [copy(foreign_entry) EXCEPT
                                !.timesheet_id =
                                    At(a, "timesheet_ids_map", connection, @),
                                !.entry_type_id = a.loc[connection][@]]),
                        "timesheet_entry_ids_map", connection,
                        foreign_entry.id, NextId(a, "timesheet_entries"))
        merged == ForEachRow(step,
                    SetAttr(types, "timesheet_entry_ids_map",
                            PersistentIdsMap(types, "timesheet-entries")),
                    "timesheet_entries")
    IN IF merged.ok
       THEN PersistentIdsMap_save(merged, "timesheet-entries",
                                  merged.maps["timesheet_entry_ids_map"])
       ELSE merged

\* Command.merge_messages: a method that handle does not call
merge_messages(e) ==
    LET step(a, connection, foreign_message) ==
            LET id == NextId(a, "messages")
                saved == save(a, "messages",
                            [copy(foreign_message) EXCEPT
                                !.sender_id =
                                    AndAt(a, "user_ids_map", connection, @),
                                !.created = Now])
                dated == save_update_fields(saved, "messages", id, "created",
                                            foreign_message.created)
                recipient_step(b, foreign_recipient) ==
                    IF ~b.ok THEN b
                    ELSE IF Miss(b, "user_ids_map", connection,
                                 foreign_recipient.recipient_id)
                    THEN Raise(b)
                    ELSE save_update_fields(
                            save(b, "message_recipients",
                                 [copy(foreign_recipient) EXCEPT
                                    !.message_id = id,
                                    !.recipient_id =
                                        At(b, "user_ids_map", connection, @),
                                    !.sent = Now]),
                            "message_recipients",
                            NextId(b, "message_recipients"), "sent",
                            foreign_recipient.sent)
                attachment_step(b, foreign_attachment) ==
                    IF ~b.ok THEN b
                    ELSE IF Miss(b, "file_ids_map", connection,
                                 foreign_attachment.file_id)
                    THEN Raise(b)
                    ELSE save(b, "message_attachments",
                              [copy(foreign_attachment) EXCEPT
                                !.message_id = id,
                                !.file_id =
                                    At(b, "file_ids_map", connection, @)])
                of(t) == FilterSeq(a.src[connection][t],
                            LAMBDA r : r.message_id = foreign_message.id)
                with_recipients ==
                    FoldSeq(recipient_step, dated, of("message_recipients"))
                with_attachments ==
                    FoldSeq(attachment_step, with_recipients,
                            of("message_attachments"))
            IN IF Has(a, "message_ids_map", connection, foreign_message.id)
               THEN a
               ELSE IF MissOpt(a, "user_ids_map", connection,
                               foreign_message.sender_id)
               THEN Raise(a)
               ELSE IF ~with_attachments.ok THEN with_attachments
               ELSE MapSet(with_attachments, "message_ids_map", connection,
                           foreign_message.id, id)
        merged == ForEachRow(step,
                    SetAttr(e, "message_ids_map",
                            PersistentIdsMap(e, "messages")),
                    "messages")
    IN IF merged.ok
       THEN PersistentIdsMap_save(merged, "messages",
                                  merged.maps["message_ids_map"])
       ELSE merged

-----------------------------------------------------------------------------
(* Command.handle: the perform_operation calls as its text lists them.    *)
(* reads are the self.*_ids_map attributes the phase function reads,      *)
(* creates those it assigns.                                               *)

Phase(label, func, long, reads, creates) ==
    [label |-> label, func |-> func, long |-> long, reads |-> reads,
     creates |-> creates]

Calls ==
    <<Phase("Performing local migrations", "perform_local_migrations", TRUE,
            {}, {}),
      Phase("Configuring site", "configure_site", FALSE, {}, {}),
      Phase("Fixing broken files", "fix_broken_files", FALSE, {}, {}),
      Phase("Performing foreign migrations", "perform_foreign_migrations",
            TRUE, {}, {}),
      Phase("Loading permissions", "load_auth_permissions_map", FALSE,
            {}, {"permission_ids_map"}),
      Phase("Merging groups", "merge_groups", FALSE,
            {"permission_ids_map"}, {"group_ids_map"}),
      Phase("Merging users", "merge_users", FALSE,
            {"group_ids_map", "permission_ids_map"}, {"user_ids_map"}),
      Phase("Merging folders", "merge_folders", FALSE,
            {"user_ids_map"}, {"folder_ids_map"}),
      Phase("Merging files", "merge_files", FALSE,
            {"folder_ids_map", "user_ids_map"}, {"file_ids_map"}),
      Phase("Merging bank accounts", "merge_bank_accounts", FALSE,
            {}, {"bank_account_ids_map"}),
      Phase("Merging bank account statements",
            "merge_bank_account_statements", FALSE,
            {"bank_account_ids_map"}, {"bank_account_statement_ids_map"}),
      Phase("Merging bank account transactions",
            "merge_bank_account_transactions", FALSE,
            {"bank_account_ids_map", "bank_account_statement_ids_map"},
            {"bank_transaction_ids_map"}),
      Phase("Merging print setups", "merge_print_setups", FALSE,
            {"file_ids_map"}, {"print_setup_ids_map"}),
      Phase("Merging organizations", "merge_organizations", FALSE,
            {"print_setup_ids_map"}, {"organization_ids_map"}),
      Phase("Merging departments", "merge_departments", FALSE,
            {}, {"department_ids_map"}),
      Phase("Merging places", "merge_places", FALSE, {}, {"place_ids_map"}),
      Phase("Merging questions", "merge_questions", FALSE,
            {}, {"question_ids_map"}),
      Phase("Merging school years", "merge_school_years", FALSE,
            {}, {"school_year_ids_map"}),
      Phase("Merging school year divisions", "merge_school_year_divisions",
            FALSE, {"school_year_ids_map"}, {"school_year_division_ids_map"}),
      Phase("Merging school year periods", "merge_school_year_periods",
            FALSE, {"school_year_division_ids_map"},
            {"school_year_period_ids_map"}),
      Phase("Merging stat groups", "merge_stat_groups", FALSE,
            {}, {"stat_group_ids_map"}),
      Phase("Merging age groups", "merge_age_groups", FALSE,
            {"stat_group_ids_map"}, {"age_group_ids_map"}),
      Phase("Merging target groups", "merge_target_groups", FALSE,
            {"stat_group_ids_map"}, {"target_group_ids_map"}),
      Phase("Merging citizenships", "merge_citizenships", FALSE,
            {}, {"citizenship_ids_map"}),
      Phase("Merging schools", "merge_schools", FALSE, {}, {"school_ids_map"}),
      Phase("Merging leaders", "merge_leaders", FALSE,
            {"user_ids_map", "file_ids_map", "school_year_ids_map"},
            {"leader_ids_map"}),
      Phase("Merging parents", "merge_parents", FALSE, {"user_ids_map"}, {}),
      Phase("Merging participants", "merge_participants", FALSE,
            {"user_ids_map", "age_group_ids_map", "citizenship_ids_map",
             "school_ids_map"}, {}),
      Phase("Merging group contacts", "merge_group_contacts", FALSE,
            {"user_ids_map", "target_group_ids_map", "school_ids_map"}, {}),
      Phase("Merging billing infos", "merge_billing_infos", FALSE,
            {"user_ids_map"}, {}),
      Phase("Merging agreements", "merge_agreements", FALSE,
            {}, {"agreement_ids_map"}),
      Phase("Merging agreement options", "merge_agreement_options", FALSE,
            {"agreement_ids_map"}, {"agreement_option_ids_map"}),
      Phase("Merging activity types", "merge_activity_types", FALSE,
            {"print_setup_ids_map", "organization_ids_map",
             "question_ids_map", "agreement_ids_map", "file_ids_map"},
            {"activity_type_ids_map"}),
      Phase("Creating activity type pages", "create_activity_type_pages",
            FALSE, {}, {}),
      Phase("Merging activity groups", "merge_activity_groups", FALSE,
            {"activity_type_ids_map"}, {"activity_group_ids_map"}),
      Phase("Merging resources", "merge_resources", FALSE,
            {"leader_ids_map"}, {"resource_ids_map"}),
      Phase("Merging resource groups", "merge_resource_groups", FALSE,
            {"resource_ids_map"}, {"resource_group_ids_map"}),
      Phase("Fixing activities", "fix_activities", FALSE, {}, {}),
      Phase("Merging activities", "merge_activities", FALSE,
            {"school_year_ids_map", "activity_type_ids_map",
             "department_ids_map", "place_ids_map", "file_ids_map",
             "print_setup_ids_map", "organization_ids_map",
             "activity_group_ids_map", "age_group_ids_map",
             "target_group_ids_map", "leader_ids_map", "question_ids_map",
             "agreement_ids_map"},
            {"activity_ids_map"}),
      Phase("Merging activity variants", "merge_activity_variants", FALSE,
            {"activity_ids_map", "school_year_division_ids_map",
             "age_group_ids_map", "target_group_ids_map", "resource_ids_map",
             "resource_group_ids_map"},
            {"activity_variant_ids_map"}),
      Phase("Merging calendar events", "merge_calendar_events", FALSE,
            {"activity_ids_map", "resource_ids_map", "resource_group_ids_map"},
            {"calendar_event_ids_map"}),
      Phase("Merging calendar exports", "merge_calendar_exports", FALSE,
            {"resource_ids_map"}, {}),
      Phase("Merging registration links", "merge_registration_links", FALSE,
            {"school_year_ids_map", "activity_type_ids_map",
             "activity_variant_ids_map"},
            {"registration_link_ids_map"}),
      Phase("Merging registrations", "merge_registrations", FALSE,
            {"user_ids_map", "activity_ids_map", "activity_variant_ids_map",
             "calendar_event_ids_map", "registration_link_ids_map",
             "question_ids_map", "agreement_ids_map",
             "agreement_option_ids_map", "citizenship_ids_map",
             "age_group_ids_map", "school_ids_map", "target_group_ids_map"},
            {"registration_ids_map", "registration_participant_ids_map"}),
      Phase("Merging course registration periods",
            "merge_course_registration_periods", FALSE,
            {"registration_ids_map", "school_year_period_ids_map"}, {}),
      Phase("Merging refund requests", "merge_refund_requests", FALSE,
            {"registration_ids_map", "user_ids_map"}, {}),
      Phase("Merging discounts", "merge_discounts", FALSE,
            {"registration_ids_map", "user_ids_map"}, {}),
      Phase("Merging transactions", "merge_transactions", FALSE,
            {"user_ids_map", "registration_ids_map", "organization_ids_map",
             "bank_transaction_ids_map"},
            {"transaction_ids_map"}),
      Phase("Merging timesheets", "merge_timesheets", FALSE,
            {"leader_ids_map"}, {"timesheet_ids_map"}),
      Phase("Merging timesheet entries", "merge_timesheet_entries", FALSE,
            {"timesheet_ids_map"}, {"timesheet_entry_ids_map"}),
      Phase("Merging journals", "merge_journals", FALSE,
            {"activity_ids_map", "school_year_division_ids_map",
             "leader_ids_map", "registration_participant_ids_map"},
            {"journal_ids_map"}),
      Phase("Merging journal entries", "merge_journal_entries", FALSE,
            {"journal_ids_map", "school_year_period_ids_map",
             "registration_participant_ids_map", "timesheet_ids_map"},
            {"journal_entry_ids_map"})>>

\* merge_folders called before merge_users
Phases_Swapped ==
    LET i == CHOOSE k \in DOMAIN Calls : Calls[k].func = "merge_users"
    IN [k \in DOMAIN Calls |->
            IF k = i THEN Calls[i + 1] ELSE IF k = i + 1 THEN Calls[i]
            ELSE Calls[k]]

\* the calls in the order in which handle makes them: the order of its text
Phases == Calls

NPhases == Len(Phases)

\* the index in Phases of a phase function
IndexOf(func) == CHOOSE k \in DOMAIN Phases : Phases[k].func = func

\* a phase function of an entity type whose rows the model does not carry:
\* it assigns its identity maps (no source has a row of the type)
maps_only(e, creates) ==
    IF creates = {} THEN e
    ELSE [e EXCEPT !.maps = [n \in creates |-> get_ids_map] @@ @]

\* func(): the phase function named func, run in environment e
Call(func, e) ==
    CASE func = "perform_local_migrations" -> perform_local_migrations(e)
      [] func = "configure_site" -> configure_site(e)
      [] func = "fix_broken_files" -> fix_broken_files(e)
      [] func = "perform_foreign_migrations" -> perform_foreign_migrations(e)
      [] func = "load_auth_permissions_map" -> load_auth_permissions_map(e)
      [] func = "merge_groups" -> merge_groups(e)
      [] func = "merge_users" -> merge_users(e)
      [] func = "merge_folders" -> merge_folders(e)
      [] func = "merge_files" -> merge_files(e)
      [] func = "merge_bank_accounts" -> merge_bank_accounts(e)
      [] func = "merge_bank_account_statements" ->
            merge_bank_account_statements(e)
      [] func = "merge_bank_account_transactions" ->
            merge_bank_account_transactions(e)
      [] func = "merge_print_setups" -> merge_print_setups(e)
      [] func = "merge_school_years" -> merge_school_years(e)
      [] func = "merge_school_year_divisions" -> merge_school_year_divisions(e)
      [] func = "merge_school_year_periods" -> merge_school_year_periods(e)
      [] func = "merge_leaders" -> merge_leaders(e)
      [] func = "merge_activity_types" -> merge_activity_types(e)
      [] func = "create_activity_type_pages" -> create_activity_type_pages(e)
      [] func = "merge_resources" -> merge_resources(e)
      [] func = "fix_activities" -> fix_activities(e)
      [] func = "merge_activities" -> merge_activities(e)
      [] func = "merge_activity_variants" -> merge_activity_variants(e)
      [] func = "merge_registrations" -> merge_registrations(e)
      [] func = "merge_course_registration_periods" ->
            merge_course_registration_periods(e)
      [] func = "merge_discounts" -> merge_discounts(e)
      [] func = "merge_transactions" -> merge_transactions(e)
      [] func = "merge_timesheets" -> merge_timesheets(e)
      [] func = "merge_timesheet_entries" -> merge_timesheet_entries(e)
      [] OTHER -> maps_only(e, Phases[IndexOf(func)].creates)

\* the phases whose fault is the exit code of the migration executable
Migrations == {"perform_local_migrations", "perform_foreign_migrations"}

\* func() of phase k: reading an attribute that no earlier phase assigned
\* raises AttributeError; a fault of the storage layer raises at the last
\* statement of the function
RunPhase(k, func(_), e) ==
    IF ~(Phases[k].reads \subseteq DOMAIN e.maps) THEN Raise(e)
    ELSE LET r == func(e)
         IN IF e.fault # 0 /\ Phases[k].func \notin Migrations
            THEN Raise(r) ELSE r

\* a call that is not wrapped in a transaction: its writes stay
atomic_NoRollback(before, r) == r.db

\* with transaction.atomic(): func() -- what the default database holds
\* afterwards: the writes of func when it returned, none when it raised
atomic(before, r) == IF r.ok THEN r.db ELSE before

\* an except clause that reports the failure and goes on
reraise_Swallow(k) == [status |-> "running", pc |-> k + 1]

\* except Exception: ...; raise -- where handle is after phase k raised
reraise(k) == [status |-> "failed", pc |-> k]

\* a perform_operation that writes the check mark whatever func did
Line_Checked(k, ok) ==
    [label |-> Phases[k].label,
     result |-> (IF Phases[k].long THEN Phases[k].label ELSE "") \o " ok"]

\* the lines perform_operation writes: the label, then the glyph
Line(k, ok) ==
    [label |-> Phases[k].label,
     result |-> (IF Phases[k].long THEN Phases[k].label ELSE "")
                    \o (IF ok THEN " ok" ELSE " failed")]

\* self.perform_operation(label, func, long) as the k-th call of handle
perform_operation(k, func(_)) ==
    /\ status = "running"
    /\ pc = k
    /\ \E fault \in (IF failures < MaxFailures
                     THEN 0..Len(import_connections) ELSE {0}),
          rnd \in HexSuffixes :
        LET r == RunPhase(k, func, NewEnv(target, src, maps, fault, rnd))
            next == IF r.ok THEN [status |-> "running", pc |-> k + 1]
                    ELSE reraise(k)
        IN /\ ~r.hang
           /\ target' = atomic(target, r)
           /\ migrated' = migrated \o r.cmds
           /\ src' = r.src
           /\ maps' = r.maps
           /\ warnings' = warnings \o r.warn
           /\ out' = Append(out, Line(k, r.ok))
           /\ status' = next.status
           /\ pc' = next.pc
           /\ failures' = IF fault # 0 THEN failures + 1 ELSE failures
    /\ UNCHANGED <<runs, prev, base, init, call, other, admin>>

\* a handle that calls merge_messages before it reports success
Finish_Messages ==
    /\ status = "running"
    /\ pc = NPhases + 1
    /\ LET r == merge_messages(NewEnv(target, src, maps, 0,
                                      CHOOSE h \in HexSuffixes : TRUE))
       IN /\ target' = atomic(target, r)
          /\ maps' = r.maps
    /\ status' = "done"
    /\ out' = Append(out, [label |-> "Successfully merged all data",
                           result |-> ""])
    /\ UNCHANGED <<src, pc, warnings, runs, failures, prev, base, init,
                   migrated, call, other, admin>>

\* the end of handle: self.stdout.write("Successfully merged all data")
Finish ==
    /\ status = "running"
    /\ pc = NPhases + 1
    /\ status' = "done"
    /\ out' = Append(out, [label |-> "Successfully merged all data",
                           result |-> ""])
    /\ UNCHANGED <<src, target, maps, pc, warnings, runs, failures, prev,
                   base, init, migrated, call, other, admin>>

\* the operator runs the command (again): a new process, a new Command
StartRun ==
    /\ status \in {"idle", "failed", "done"}
    /\ runs < MaxRuns
    /\ runs' = runs + 1
    /\ status' = "running"
    /\ pc' = 1
    /\ maps' = <<>>
    /\ out' = <<>>
    /\ warnings' = <<>>
    /\ prev' = status
    /\ base' = target
    /\ migrated' = <<>>
    /\ UNCHANGED <<src, target, failures, init, call, other, admin>>

\* handle from its first call to its last, on the target db and the sources
\* s, with no fault of the storage layer: the environment it ends in (not ok
\* when the data make a phase raise)
handle(db, s, rnd) ==
    FoldSeq(LAMBDA e, k :
                IF ~e.ok THEN e
                ELSE LET r == RunPhase(k, LAMBDA x : Call(Phases[k].func, x),
                                       NewEnv(e.db, e.src, e.maps, 0, rnd))
                     IN [r EXCEPT !.db = atomic(e.db, r)],
            NewEnv(db, s, <<>>, 0, rnd), [k \in 1..NPhases |-> k])

-----------------------------------------------------------------------------
(* The calls of handle, one action each *)

do_perform_local_migrations == perform_operation(IndexOf("perform_local_migrations"), LAMBDA e : Call("perform_local_migrations", e))
do_configure_site == perform_operation(IndexOf("configure_site"), LAMBDA e : Call("configure_site", e))
do_fix_broken_files == perform_operation(IndexOf("fix_broken_files"), LAMBDA e : Call("fix_broken_files", e))
do_perform_foreign_migrations == perform_operation(IndexOf("perform_foreign_migrations"), LAMBDA e : Call("perform_foreign_migrations", e))
do_load_auth_permissions_map == perform_operation(IndexOf("load_auth_permissions_map"), LAMBDA e : Call("load_auth_permissions_map", e))
do_merge_groups == perform_operation(IndexOf("merge_groups"), LAMBDA e : Call("merge_groups", e))
do_merge_users == perform_operation(IndexOf("merge_users"), LAMBDA e : Call("merge_users", e))
do_merge_folders == perform_operation(IndexOf("merge_folders"), LAMBDA e : Call("merge_folders", e))
do_merge_files == perform_operation(IndexOf("merge_files"), LAMBDA e : Call("merge_files", e))
do_merge_bank_accounts == perform_operation(IndexOf("merge_bank_accounts"), LAMBDA e : Call("merge_bank_accounts", e))
do_merge_bank_account_statements == perform_operation(IndexOf("merge_bank_account_statements"), LAMBDA e : Call("merge_bank_account_statements", e))
do_merge_bank_account_transactions == perform_operation(IndexOf("merge_bank_account_transactions"), LAMBDA e : Call("merge_bank_account_transactions", e))
do_merge_print_setups == perform_operation(IndexOf("merge_print_setups"), LAMBDA e : Call("merge_print_setups", e))
do_merge_organizations == perform_operation(IndexOf("merge_organizations"), LAMBDA e : Call("merge_organizations", e))
do_merge_departments == perform_operation(IndexOf("merge_departments"), LAMBDA e : Call("merge_departments", e))
do_merge_places == perform_operation(IndexOf("merge_places"), LAMBDA e : Call("merge_places", e))
do_merge_questions == perform_operation(IndexOf("merge_questions"), LAMBDA e : Call("merge_questions", e))
do_merge_school_years == perform_operation(IndexOf("merge_school_years"), LAMBDA e : Call("merge_school_years", e))
do_merge_school_year_divisions == perform_operation(IndexOf("merge_school_year_divisions"), LAMBDA e : Call("merge_school_year_divisions", e))
do_merge_school_year_periods == perform_operation(IndexOf("merge_school_year_periods"), LAMBDA e : Call("merge_school_year_periods", e))
do_merge_stat_groups == perform_operation(IndexOf("merge_stat_groups"), LAMBDA e : Call("merge_stat_groups", e))
do_merge_age_groups == perform_operation(IndexOf("merge_age_groups"), LAMBDA e : Call("merge_age_groups", e))
do_merge_target_groups == perform_operation(IndexOf("merge_target_groups"), LAMBDA e : Call("merge_target_groups", e))
do_merge_citizenships == perform_operation(IndexOf("merge_citizenships"), LAMBDA e : Call("merge_citizenships", e))
do_merge_schools == perform_operation(IndexOf("merge_schools"), LAMBDA e : Call("merge_schools", e))
do_merge_leaders == perform_operation(IndexOf("merge_leaders"), LAMBDA e : Call("merge_leaders", e))
do_merge_parents == perform_operation(IndexOf("merge_parents"), LAMBDA e : Call("merge_parents", e))
do_merge_participants == perform_operation(IndexOf("merge_participants"), LAMBDA e : Call("merge_participants", e))
do_merge_group_contacts == perform_operation(IndexOf("merge_group_contacts"), LAMBDA e : Call("merge_group_contacts", e))
do_merge_billing_infos == perform_operation(IndexOf("merge_billing_infos"), LAMBDA e : Call("merge_billing_infos", e))
do_merge_agreements == perform_operation(IndexOf("merge_agreements"), LAMBDA e : Call("merge_agreements", e))
do_merge_agreement_options == perform_operation(IndexOf("merge_agreement_options"), LAMBDA e : Call("merge_agreement_options", e))
do_merge_activity_types == perform_operation(IndexOf("merge_activity_types"), LAMBDA e : Call("merge_activity_types", e))
do_create_activity_type_pages == perform_operation(IndexOf("create_activity_type_pages"), LAMBDA e : Call("create_activity_type_pages", e))
do_merge_activity_groups == perform_operation(IndexOf("merge_activity_groups"), LAMBDA e : Call("merge_activity_groups", e))
do_merge_resources == perform_operation(IndexOf("merge_resources"), LAMBDA e : Call("merge_resources", e))
do_merge_resource_groups == perform_operation(IndexOf("merge_resource_groups"), LAMBDA e : Call("merge_resource_groups", e))
do_fix_activities == perform_operation(IndexOf("fix_activities"), LAMBDA e : Call("fix_activities", e))
do_merge_activities == perform_operation(IndexOf("merge_activities"), LAMBDA e : Call("merge_activities", e))
do_merge_activity_variants == perform_operation(IndexOf("merge_activity_variants"), LAMBDA e : Call("merge_activity_variants", e))
do_merge_calendar_events == perform_operation(IndexOf("merge_calendar_events"), LAMBDA e : Call("merge_calendar_events", e))
do_merge_calendar_exports == perform_operation(IndexOf("merge_calendar_exports"), LAMBDA e : Call("merge_calendar_exports", e))
do_merge_registration_links == perform_operation(IndexOf("merge_registration_links"), LAMBDA e : Call("merge_registration_links", e))
do_merge_registrations == perform_operation(IndexOf("merge_registrations"), LAMBDA e : Call("merge_registrations", e))
do_merge_course_registration_periods == perform_operation(IndexOf("merge_course_registration_periods"), LAMBDA e : Call("merge_course_registration_periods", e))
do_merge_refund_requests == perform_operation(IndexOf("merge_refund_requests"), LAMBDA e : Call("merge_refund_requests", e))
do_merge_discounts == perform_operation(IndexOf("merge_discounts"), LAMBDA e : Call("merge_discounts", e))
do_merge_transactions == perform_operation(IndexOf("merge_transactions"), LAMBDA e : Call("merge_transactions", e))
do_merge_timesheets == perform_operation(IndexOf("merge_timesheets"), LAMBDA e : Call("merge_timesheets", e))
do_merge_timesheet_entries == perform_operation(IndexOf("merge_timesheet_entries"), LAMBDA e : Call("merge_timesheet_entries", e))
do_merge_journals == perform_operation(IndexOf("merge_journals"), LAMBDA e : Call("merge_journals", e))
do_merge_journal_entries == perform_operation(IndexOf("merge_journal_entries"), LAMBDA e : Call("merge_journal_entries", e))

Next ==
    \/ StartRun
    \/ Finish
    \/ do_perform_local_migrations
    \/ do_configure_site
    \/ do_fix_broken_files
    \/ do_perform_foreign_migrations
    \/ do_load_auth_permissions_map
    \/ do_merge_groups
    \/ do_merge_users
    \/ do_merge_folders
    \/ do_merge_files
    \/ do_merge_bank_accounts
    \/ do_merge_bank_account_statements
    \/ do_merge_bank_account_transactions
    \/ do_merge_print_setups
    \/ do_merge_organizations
    \/ do_merge_departments
    \/ do_merge_places
    \/ do_merge_questions
    \/ do_merge_school_years
    \/ do_merge_school_year_divisions
    \/ do_merge_school_year_periods
    \/ do_merge_stat_groups
    \/ do_merge_age_groups
    \/ do_merge_target_groups
    \/ do_merge_citizenships
    \/ do_merge_schools
    \/ do_merge_leaders
    \/ do_merge_parents
    \/ do_merge_participants
    \/ do_merge_group_contacts
    \/ do_merge_billing_infos
    \/ do_merge_agreements
    \/ do_merge_agreement_options
    \/ do_merge_activity_types
    \/ do_create_activity_type_pages
    \/ do_merge_activity_groups
    \/ do_merge_resources
    \/ do_merge_resource_groups
    \/ do_fix_activities
    \/ do_merge_activities
    \/ do_merge_activity_variants
    \/ do_merge_calendar_events
    \/ do_merge_calendar_exports
    \/ do_merge_registration_links
    \/ do_merge_registrations
    \/ do_merge_course_registration_periods
    \/ do_merge_refund_requests
    \/ do_merge_discounts
    \/ do_merge_transactions
    \/ do_merge_timesheets
    \/ do_merge_timesheet_entries
    \/ do_merge_journals
    \/ do_merge_journal_entries

-----------------------------------------------------------------------------
(* The databases before the first run *)

E_a == <<"a", "@", "x">>
E_A == <<"A", "@", "x">>
E_b == <<"b", "@", "x">>

User(id, username, email, first_name, date_joined, groups) ==
    [id |-> id, username |-> username, email |-> email,
     first_name |-> first_name, last_name |-> "", is_active |-> TRUE,
     is_staff |-> FALSE, is_superuser |-> FALSE,
     date_joined |-> date_joined, groups |-> groups,
     user_permissions |-> {}]

File(id, folder_id, sha1, owner_id, ctype, file, modified_at) ==
    [id |-> id, folder_id |-> folder_id, sha1 |-> sha1, owner_id |-> owner_id,
     ctype |-> ctype, file |-> file, modified_at |-> modified_at]

Discount(id, registration_id, registration_period_id, amount) ==
    [id |-> id, registration_id |-> registration_id,
     registration_period_id |-> registration_period_id, amount |-> amount,
     accounted_by_id |-> Null]

Transaction(id, amount, accounted_by_id, target_registration_id, bank_id) ==
    [id |-> id, amount |-> amount, accounted_by_id |-> accounted_by_id,
     source_registration_id |-> Null,
     target_registration_id |-> target_registration_id,
     bankreader_transaction_id |-> bank_id]

\* the first source.  attached: its activity type has an attachment
Boskovice(users, attached) ==
    [EmptyDb EXCEPT
        !.permissions = <<[id |-> 1, nk |-> "add_course"],
                          [id |-> 2, nk |-> "view_report"]>>,
        !.groups = <<[id |-> 1, name |-> "leaders", permissions |-> {1, 2}]>>,
        !.users = users,
        !.folders = <<[id |-> 1, name |-> "docs", parent_id |-> Null,
                       owner_id |-> 1],
                      [id |-> 2, name |-> "2023", parent_id |-> 1,
                       owner_id |-> Null]>>,
        !.files = <<File(1, 2, "h1", 1, "image", "", 1),
                    File(2, Null, "h2", Null, "file", "f2.txt", 2)>>,
        !.images = <<[id |-> 1]>>,
        !.accounts = <<[id |-> 1, name |-> "main"]>>,
        !.statements = <<[id |-> 1, account_id |-> 1, statement |-> "2023/1"]>>,
        !.bank_transactions =
            <<[id |-> 1, account_id |-> 1, account_statement_id |-> 1,
               transaction_id |-> "t1"]>>,
        !.print_setups = <<[id |-> 1, name |-> "A4", background_id |-> 1]>>,
        !.school_years = <<[id |-> 1, year |-> 2023, active |-> FALSE]>>,
        !.divisions = <<[id |-> 1, school_year_id |-> 1, name |-> "halves"]>>,
        !.periods = <<[id |-> 1, school_year_division_id |-> 1,
                       name |-> "first"]>>,
        !.leaders = <<[id |-> 1, user_id |-> 1, photo_id |-> Null,
                       school_years |-> {1}]>>,
        !.leader_contacts = <<[id |-> 1, leader_id |-> 1, contact |-> "tel"]>>,
        !.activity_types =
            <<[id |-> 1, slug |-> "kurzy", model |-> COURSE, page |-> 4,
               reg_print_setup_id |-> 1]>>,
        !.attachments =
            IF attached
            THEN <<[id |-> 1, activity_type_id |-> 1, file_id |-> 2]>>
            ELSE <<>>,
        !.activities =
            <<[id |-> 1, kind |-> COURSE, activity_type_id |-> 1,
               school_year_id |-> 1, photo_id |-> Null,
               registration_type |-> PARTICIPANTS]>>,
        !.variants = <<[id |-> 1, activity_id |-> 1,
                        school_year_division_id |-> 1]>>,
        !.registrations =
            <<[id |-> 1, kind |-> COURSE, user_id |-> 1, activity_id |-> 1,
               activity_variant_id |-> 1, created_by_id |-> Null,
               created |-> 3]>>,
        !.reg_participants = <<[id |-> 1, registration_id |-> 1,
                                name |-> "kid"]>>,
        !.reg_billing_infos = <<[id |-> 1, registration_id |-> 1]>>,
        !.reg_periods = <<[id |-> 1, registration_id |-> 1, period_id |-> 1]>>,
        !.course_discounts = <<Discount(1, 1, 1, 10)>>,
        !.transactions = <<Transaction(1, 7, 1, 1, 1)>>,
        !.timesheet_periods = <<[id |-> 1, start |-> 1, end |-> 2]>>,
        !.timesheets = <<[id |-> 1, period_id |-> 1, leader_id |-> 1]>>,
        !.entry_types = <<[id |-> 1, name |-> "work"]>>,
        !.timesheet_entries = <<[id |-> 1, timesheet_id |-> 1,
                                 entry_type_id |-> 1]>>,
        !.resources = <<[id |-> 1, name |-> "hall", leader_id |-> 1]>>,
        !.availabilities = <<[id |-> 1, resource_id |-> 1, slot |-> "mon"]>>,
        !.messages = <<[id |-> 1, sender_id |-> 1, created |-> 6]>>,
        !.message_recipients = <<[id |-> 1, message_id |-> 1,
                                  recipient_id |-> 1, sent |-> 7]>>,
        !.message_attachments = <<[id |-> 1, message_id |-> 1,
                                   file_id |-> 2]>>]

\* the second source.  kind: the variant its activity is stored as;
\* registration_id: the registration its transaction pays for; stale: the
\* id of a row that is gone and that a folder and a file still refer to
\* (Null: none); same: its print setup, bank statement, bank transaction and
\* entry type have the natural keys of those of the first source
Letovice(users, kind, registration_id, stale, same) ==
    [EmptyDb EXCEPT
        !.permissions = <<[id |-> 1, nk |-> "add_course"]>>,
        !.groups = <<[id |-> 3, name |-> "office", permissions |-> {1}]>>,
        !.users = users,
        !.folders = <<[id |-> 1, name |-> "docs", parent_id |-> Null,
                       owner_id |-> stale]>>,
        !.files = <<File(1, Null, "h2", 1, "file", "", 5),
                    File(2, IF stale = Null THEN 1 ELSE stale, "h3", stale,
                         "file", "f3.txt", 4)>>,
        !.accounts = <<[id |-> 1, name |-> "main"]>>,
        !.statements =
            <<[id |-> 1, account_id |-> 1,
               statement |-> IF same THEN "2023/1" ELSE "2023/2"]>>,
        !.bank_transactions =
            <<[id |-> 1, account_id |-> 1, account_statement_id |-> 1,
               transaction_id |-> IF same THEN "t1" ELSE "t2"]>>,
        !.print_setups =
            <<[id |-> 1, name |-> IF same THEN "A4" ELSE "A5",
               background_id |-> Null]>>,
        !.school_years = <<[id |-> 1, year |-> 2022, active |-> FALSE],
                           [id |-> 2, year |-> 2023, active |-> TRUE]>>,
        !.divisions = <<[id |-> 1, school_year_id |-> 2, name |-> "halves"]>>,
        !.periods = <<[id |-> 1, school_year_division_id |-> 1,
                       name |-> "first"],
                      [id |-> 2, school_year_division_id |-> 1,
                       name |-> "second"]>>,
        !.leaders = <<[id |-> 1, user_id |-> 1, photo_id |-> 1,
                       school_years |-> {1, 2}]>>,
        !.leader_contacts = <<[id |-> 1, leader_id |-> 1,
                               contact |-> "mail"]>>,
        !.activity_types =
            <<[id |-> 1, slug |-> "akce", model |-> EVENT, page |-> 2,
               reg_print_setup_id |-> Null],
              [id |-> 2, slug |-> "kurzy", model |-> COURSE, page |-> 3,
               reg_print_setup_id |-> 1]>>,
        !.attachments = <<>>,
        !.activities =
            <<[id |-> 1, kind |-> kind, activity_type_id |-> 1,
               school_year_id |-> 2, photo_id |-> 2,
               registration_type |-> GROUPS]>>,
        !.variants = <<[id |-> 1, activity_id |-> 1,
                        school_year_division_id |-> Null]>>,
        !.registrations =
            <<[id |-> 1, kind |-> kind, user_id |-> 1, activity_id |-> 1,
               activity_variant_id |-> 1, created_by_id |-> 1,
               created |-> 5]>>,
        !.reg_groups = <<[id |-> 4, registration_id |-> 1]>>,
        !.reg_group_members =
            <<[id |-> 1, registration_id |-> 1, name |-> "m1"],
              [id |-> 2, registration_id |-> 1, name |-> "m2"]>>,
        !.reg_periods = <<[id |-> 3, registration_id |-> 1, period_id |-> 2]>>,
        !.course_discounts = <<Discount(1, 1, 3, 5), Discount(2, 1, 3, 0)>>,
        !.event_discounts = <<Discount(1, 1, Null, 2)>>,
        !.transactions = <<Transaction(1, 8, Null, registration_id, Null)>>,
        !.timesheet_periods = <<[id |-> 1, start |-> 1, end |-> 2],
                                [id |-> 2, start |-> 3, end |-> 4]>>,
        !.timesheets = <<[id |-> 1, period_id |-> 2, leader_id |-> 1]>>,
        !.entry_types =
            <<[id |-> 1, name |-> IF same THEN "work" ELSE "travel"]>>,
        !.timesheet_entries = <<[id |-> 1, timesheet_id |-> 1,
                                 entry_type_id |-> 1]>>,
        !.resources = <<[id |-> 1, name |-> "hall", leader_id |-> Null],
                        [id |-> 2, name |-> "bus", leader_id |-> 1]>>,
        !.availabilities = <<[id |-> 1, resource_id |-> 1, slot |-> "tue"],
                             [id |-> 2, resource_id |-> 2, slot |-> "wed"]>>,
        !.messages = <<[id |-> 1, sender_id |-> Null, created |-> 8]>>]

\* the default database before the first run
Default(users) ==
    [EmptyDb EXCEPT
        !.permissions = <<[id |-> 1, nk |-> "add_course"]>>,
        !.users = users]

InitWith(sources, default) ==
    /\ src = sources
    /\ target = default
    /\ init = [src |-> sources, target |-> default]
    /\ maps = <<>>
    /\ pc = 1
    /\ status = "idle"
    /\ out = <<>>
    /\ warnings = <<>>
    /\ runs = 0
    /\ failures = 0
    /\ prev = "idle"
    /\ base = default
    /\ migrated = <<>>
    /\ call = <<>>
    /\ other = <<>>
    /\ admin = <<>>

Init ==
    \E attached \in BOOLEAN, kind \in {COURSE, EVENT},
       registration_id \in {Null, 1, 2} :
        InitWith([boskovice |->
                    Boskovice(<<User(1, <<"a">>, E_A, "", 4, {1})>>, attached),
                  letovice |->
                    Letovice(<<User(1, <<"a">>, E_a, "Al", 2, {3})>>, kind,
                             registration_id, Null, FALSE)],
                 Default(<<>>))

Spec == Init /\ [][Next]_vars

-----------------------------------------------------------------------------
(* What the claims speak of *)

\* the number of rows of every table
RowCounts(db) == [t \in Tables |-> Len(db[t])]

\* the ImportedIdsMap rows of one model and one source
MapRows(db, model_name, connection) ==
    {r \in db.imported :
        r.model_name = model_name /\ r.connection = connection}

\* the line perform_operation wrote for a phase that raised
FailedAt(i) == i \in DOMAIN Phases /\ i \in DOMAIN out /\ out[i] = Line(i, FALSE)

-----------------------------------------------------------------------------
(* C1 *)

\* C1: when handle has run to completion twice on the same sources, every
\* target table has as many rows, and ImportedIdsMap the same rows, as after
\* the first run
C1_SecondRunAddsNothing ==
    (status = "done" /\ prev = "done") =>
        /\ RowCounts(target) = RowCounts(base)
        /\ target.imported = base.imported

-----------------------------------------------------------------------------
(* C2 *)

\* the phases that keep a PersistentIdsMap and whose rows the model carries
PersistentPhases ==
    {[func |-> "merge_groups", model_name |-> "auth-groups",
      table |-> "groups"],
     [func |-> "merge_activities", model_name |-> "activities",
      table |-> "activities"],
     [func |-> "merge_activity_variants", model_name |-> "activity-variants",
      table |-> "variants"],
     [func |-> "merge_registrations", model_name |-> "registrations",
      table |-> "registrations"],
     [func |-> "merge_transactions", model_name |-> "transactions",
      table |-> "transactions"],
     [func |-> "merge_timesheets", model_name |-> "timesheets",
      table |-> "timesheets"],
     [func |-> "merge_timesheet_entries", model_name |-> "timesheet-entries",
      table |-> "timesheet_entries"]}

\* the source records of phase p that the map of p does not hold yet
Unmapped(p, connection) ==
    {src[connection][p.table][i].id : i \in DOMAIN src[connection][p.table]}
        \ {r.foreign_id : r \in MapRows(target, p.model_name, connection)}

\* one completed step of phase p: the map rows it adds are one per unmapped
\* record, each with a target row of its own that the step inserted, and
\* the step inserts no other row
SkipOrInsertOne(p) ==
    LET new_rows == (Len(target[p.table]) + 1)..Len(target'[p.table])
        added == {r \in target'.imported \ target.imported :
                    r.model_name = p.model_name}
    IN /\ target.imported \subseteq target'.imported
       /\ \A r \in added :
            /\ r.foreign_id \in Unmapped(p, r.connection)
            /\ r.local_id \in new_rows
       /\ \A connection \in Connections :
            \A f \in Unmapped(p, connection) :
                \E r \in added : r.connection = connection /\ r.foreign_id = f
       /\ \A r1, r2 \in added :
            (r1.local_id = r2.local_id
                \/ (r1.connection = r2.connection
                        /\ r1.foreign_id = r2.foreign_id)) => r1 = r2
       /\ Cardinality(added) = Cardinality(new_rows)

-----------------------------------------------------------------------------
(* C3 *)

\* C3: when a run aborted and the next run completed, the target has the
\* rows of one uninterrupted run on the same sources: as many in every
\* table, and the same ImportedIdsMap rows
C3_ResumeEqualsOneRun ==
    (runs = 2 /\ prev = "failed" /\ status = "done") =>
        LET once == handle(init.target, init.src,
                           CHOOSE h \in HexSuffixes : TRUE)
        IN /\ RowCounts(target) = RowCounts(once.db)
           /\ target.imported = once.db.imported

-----------------------------------------------------------------------------
(* C4 *)

-----------------------------------------------------------------------------
(* C5 *)

\* C5: a phase that raises ends the run: its line is the last one the run
\* writes, handle has left with the exception, and no later phase is started
C5_FailureAborts ==
    /\ \A i \in DOMAIN out :
            FailedAt(i) => (i = Len(out) /\ status = "failed" /\ pc = i)
    /\ status = "failed" => FailedAt(Len(out))
    /\ status = "done" => Len(out) = NPhases + 1

\* a run that aborted in merge_users, with phases still to come
C5_Aborted ==
    /\ status = "failed" /\ pc = IndexOf("merge_users")
    /\ Len(out) = pc /\ pc < NPhases

-----------------------------------------------------------------------------
(* C6 *)

\* the foreign keys of the target: table, field, table of the row referred to
References ==
    {<<"folders", "parent_id", "folders">>,
     <<"folders", "owner_id", "users">>,
     <<"files", "folder_id", "folders">>,
     <<"files", "owner_id", "users">>,
     <<"statements", "account_id", "accounts">>,
     <<"bank_transactions", "account_id", "accounts">>,
     <<"bank_transactions", "account_statement_id", "statements">>,
     <<"print_setups", "background_id", "files">>,
     <<"divisions", "school_year_id", "school_years">>,
     <<"periods", "school_year_division_id", "divisions">>,
     <<"leaders", "user_id", "users">>,
     <<"leaders", "photo_id", "files">>,
     <<"leader_contacts", "leader_id", "leaders">>,
     <<"activity_types", "reg_print_setup_id", "print_setups">>,
     <<"activity_types", "page", "pages">>,
     <<"attachments", "activity_type_id", "activity_types">>,
     <<"attachments", "file_id", "files">>,
     <<"activities", "activity_type_id", "activity_types">>,
     <<"activities", "school_year_id", "school_years">>,
     <<"activities", "photo_id", "files">>,
     <<"variants", "activity_id", "activities">>,
     <<"variants", "school_year_division_id", "divisions">>,
     <<"registrations", "user_id", "users">>,
     <<"registrations", "activity_id", "activities">>,
     <<"registrations", "activity_variant_id", "variants">>,
     <<"registrations", "created_by_id", "users">>,
     <<"reg_participants", "registration_id", "registrations">>,
     <<"reg_periods", "registration_id", "registrations">>,
     <<"reg_periods", "period_id", "periods">>,
     <<"course_discounts", "registration_id", "registrations">>,
     <<"course_discounts", "registration_period_id", "reg_periods">>,
     <<"course_discounts", "accounted_by_id", "users">>,
     <<"event_discounts", "registration_id", "registrations">>,
     <<"event_discounts", "accounted_by_id", "users">>,
     <<"orderable_discounts", "registration_id", "registrations">>,
     <<"orderable_discounts", "accounted_by_id", "users">>,
     <<"transactions", "accounted_by_id", "users">>,
     <<"transactions", "source_registration_id", "registrations">>,
     <<"transactions", "target_registration_id", "registrations">>,
     <<"transactions", "bankreader_transaction_id", "bank_transactions">>,
     <<"timesheets", "period_id", "timesheet_periods">>,
     <<"timesheets", "leader_id", "leaders">>,
     <<"timesheet_entries", "timesheet_id", "timesheets">>,
     <<"timesheet_entries", "entry_type_id", "entry_types">>}

\* the many-to-many fields of the target
ManyToMany ==
    {<<"groups", "permissions", "permissions">>,
     <<"users", "groups", "groups">>,
     <<"users", "user_permissions", "permissions">>,
     <<"leaders", "school_years", "school_years">>}

\* a foreign key of db that is neither null nor the id of a row
Dangling(db) ==
    {<<ref, i>> \in References \X (1..8) :
        /\ i \in DOMAIN db[ref[1]]
        /\ db[ref[1]][i][ref[2]] # Null
        /\ db[ref[1]][i][ref[2]] \notin Ids(db[ref[3]])}

\* C6: after every committed phase, every foreign key of every target row
\* is null or the id of a target row of the type it refers to, and so is
\* every member of a many-to-many field
C6_ReferentialCompleteness ==
    /\ Dangling(target) = {}
    /\ \A ref \in ManyToMany :
        \A i \in DOMAIN target[ref[1]] :
            target[ref[1]][i][ref[2]] \subseteq Ids(target[ref[3]])

-----------------------------------------------------------------------------
(* C7 *)

\* the references that a phase resolves with self.<map>[connection][id] for
\* each source record it processes; every: it processes every record, not
\* only those its PersistentIdsMap lacks
SubscriptRefs ==
    {[func |-> "merge_users", table |-> "users", field |-> "groups",
      map |-> "group_ids_map", every |-> TRUE],
     [func |-> "merge_bank_account_statements", table |-> "statements",
      field |-> "account_id", map |-> "bank_account_ids_map",
      every |-> TRUE],
     [func |-> "merge_bank_account_transactions",
      table |-> "bank_transactions", field |-> "account_id",
      map |-> "bank_account_ids_map", every |-> TRUE],
     [func |-> "merge_bank_account_transactions",
      table |-> "bank_transactions", field |-> "account_statement_id",
      map |-> "bank_account_statement_ids_map", every |-> TRUE],
     [func |-> "merge_school_year_divisions", table |-> "divisions",
      field |-> "school_year_id", map |-> "school_year_ids_map",
      every |-> TRUE],
     [func |-> "merge_school_year_periods", table |-> "periods",
      field |-> "school_year_division_id",
      map |-> "school_year_division_ids_map", every |-> TRUE],
     [func |-> "merge_leaders", table |-> "leaders", field |-> "user_id",
      map |-> "user_ids_map", every |-> TRUE],
     [func |-> "merge_activities", table |-> "activities",
      field |-> "school_year_id", map |-> "school_year_ids_map",
      every |-> FALSE],
     [func |-> "merge_activities", table |-> "activities",
      field |-> "activity_type_id", map |-> "activity_type_ids_map",
      every |-> FALSE],
     [func |-> "merge_activities", table |-> "activities",
      field |-> "photo_id", map |-> "file_ids_map", every |-> FALSE],
     [func |-> "merge_activity_variants", table |-> "variants",
      field |-> "activity_id", map |-> "activity_ids_map", every |-> FALSE],
     [func |-> "merge_activity_variants", table |-> "variants",
      field |-> "school_year_division_id",
      map |-> "school_year_division_ids_map", every |-> FALSE],
     [func |-> "merge_registrations", table |-> "registrations",
      field |-> "user_id", map |-> "user_ids_map", every |-> FALSE],
     [func |-> "merge_registrations", table |-> "registrations",
      field |-> "created_by_id", map |-> "user_ids_map", every |-> FALSE],
     [func |-> "merge_registrations", table |-> "registrations",
      field |-> "activity_id", map |-> "activity_ids_map", every |-> FALSE],
     [func |-> "merge_registrations", table |-> "registrations",
      field |-> "activity_variant_id", map |-> "activity_variant_ids_map",
      every |-> FALSE],
     [func |-> "merge_course_registration_periods", table |-> "reg_periods",
      field |-> "registration_id", map |-> "registration_ids_map",
      every |-> TRUE],
     [func |-> "merge_course_registration_periods", table |-> "reg_periods",
      field |-> "period_id", map |-> "school_year_period_ids_map",
      every |-> TRUE],
     [func |-> "merge_transactions", table |-> "transactions",
      field |-> "accounted_by_id", map |-> "user_ids_map", every |-> FALSE],
     [func |-> "merge_transactions", table |-> "transactions",
      field |-> "source_registration_id", map |-> "registration_ids_map",
      every |-> FALSE],
     [func |-> "merge_transactions", table |-> "transactions",
      field |-> "target_registration_id", map |-> "registration_ids_map",
      every |-> FALSE],
     [func |-> "merge_transactions", table |-> "transactions",
      field |-> "bankreader_transaction_id",
      map |-> "bank_transaction_ids_map", every |-> FALSE],
     [func |-> "merge_timesheets", table |-> "timesheets",
      field |-> "leader_id", map |-> "leader_ids_map", every |-> FALSE],
     [func |-> "merge_timesheet_entries", table |-> "timesheet_entries",
      field |-> "timesheet_id", map |-> "timesheet_ids_map",
      every |-> FALSE]}

\* the references a phase resolves with self.<map>[connection].get(id)
GetRefs ==
    {[func |-> "merge_folders", table |-> "folders", field |-> "owner_id",
      map |-> "user_ids_map", ids |-> "folder_ids_map", every |-> TRUE],
     [func |-> "merge_files", table |-> "files", field |-> "folder_id",
      map |-> "folder_ids_map", ids |-> "file_ids_map", every |-> TRUE],
     [func |-> "merge_files", table |-> "files", field |-> "owner_id",
      map |-> "user_ids_map", ids |-> "file_ids_map", every |-> TRUE]}

\* the permissions a phase adds if permission.id in self.permission_ids_map
FilteredRefs ==
    {[func |-> "merge_groups", table |-> "groups", field |-> "permissions",
      map |-> "permission_ids_map", every |-> FALSE],
     [func |-> "merge_users", table |-> "users",
      field |-> "user_permissions", map |-> "permission_ids_map",
      every |-> TRUE]}

\* the ids a field of a source record refers to
Referred(row, field) ==
    IF field \in {"groups", "permissions", "user_permissions"}
    THEN row[field]
    ELSE IF row[field] = Null THEN {} ELSE {row[field]}

\* the source records of a connection that the phase of ref processes
Processed(ref, connection) ==
    {i \in DOMAIN src[connection][ref.table] :
        \/ ref.every
        \/ \E p \in PersistentPhases :
            /\ p.func = ref.func
            /\ src[connection][ref.table][i].id \in Unmapped(p, connection)}

\* the processed records that refer to an id the map of ref has no entry for
Misses(ref, connection) ==
    {i \in Processed(ref, connection) :
        \E id \in Referred(src[connection][ref.table][i], ref.field) :
            id \notin DOMAIN maps[ref.map][connection]}

\* the phase of ref is about to run and one of its records has a miss
AboutToMiss(ref) ==
    /\ status = "running"
    /\ pc = IndexOf(ref.func)
    /\ \E connection \in Connections : Misses(ref, connection) # {}

Made(ref, connection, i) ==
    LET id == maps'[ref.ids][connection][src[connection][ref.table][i].id]
    IN IF id > Len(target[ref.table]) THEN {target'[ref.table][id]} ELSE {}

-----------------------------------------------------------------------------
(* C8 *)

\* C8: every map a phase reads is created by one phase, which comes strictly
\* earlier in the sequence; a phase that is about to run finds the maps it
\* reads, and the maps the Command holds are those of the phases before it
C8_TopologicalOrder ==
    /\ \A k \in DOMAIN Phases :
        \A m \in Phases[k].reads :
            /\ \E j \in 1..(k - 1) : m \in Phases[j].creates
            /\ \A j \in k..NPhases : m \notin Phases[j].creates
    /\ (status = "running" /\ pc \in DOMAIN Phases) =>
        /\ Phases[pc].reads \subseteq DOMAIN maps
        /\ DOMAIN maps = UNION {Phases[j].creates : j \in 1..(pc - 1)}

\* the last phase is about to run with all the maps it reads
C8_LastPhaseReady ==
    /\ status = "running" /\ pc = NPhases
    /\ Phases[pc].reads # {}
    /\ Phases[pc].reads \subseteq DOMAIN maps

-----------------------------------------------------------------------------
(* C9 *)

\* two emails are equal ignoring case
SameEmail(s, t) ==
    /\ Len(s) = Len(t)
    /\ \A i \in DOMAIN s : LowerChar(s[i]) = LowerChar(t[i])

\* the users of the sources: connection and position
SourceUsers ==
    {x \in Connections \X (1..3) : x[2] \in DOMAIN src[x[1]].users}

\* the source user x
SourceUser(x) == src[x[1]].users[x[2]]

\* the target user that user_ids_map gives the source user x
LocalUser(x) == maps["user_ids_map"][x[1]][SourceUser(x).id]

\* the users the target had before the run with the email of x
Before(x) ==
    {i \in DOMAIN base.users : SameEmail(base.users[i].email,
                                         SourceUser(x).email)}

\* C9: after merge_users, two source users have the same target user exactly
\* when their emails are equal ignoring case; a source user whose email a
\* user of the target had gets that user, any other a user the run inserted
C9_UsersByEmail ==
    (status = "running" /\ pc > IndexOf("merge_users")) =>
        /\ \A x, y \in SourceUsers :
            SameEmail(SourceUser(x).email, SourceUser(y).email)
                <=> LocalUser(x) = LocalUser(y)
        /\ \A x \in SourceUsers :
            /\ LocalUser(x) \in DOMAIN target.users
            /\ SameEmail(target.users[LocalUser(x)].email,
                         SourceUser(x).email)
            /\ IF Before(x) # {} THEN LocalUser(x) \in Before(x)
               ELSE LocalUser(x) > Len(base.users)
        /\ \A i \in DOMAIN target.users :
            i > Len(base.users) => \E x \in SourceUsers : LocalUser(x) = i

\* merge_users has merged two users of one source and one of the other
\* source into a user the target had, and inserted a user for another email
C9_MergedAndKept ==
    /\ status = "running" /\ pc = IndexOf("merge_users") + 1
    /\ runs = 1
    /\ base.users # <<>>
    /\ \E x, y, z \in SourceUsers :
        /\ x # y /\ x[1] = y[1] /\ x[1] # z[1]
        /\ LocalUser(x) = LocalUser(y) /\ LocalUser(y) = LocalUser(z)
        /\ SourceUser(x).email # SourceUser(z).email
        /\ LocalUser(x) <= Len(base.users)
    /\ Len(target.users) > Len(base.users)

-----------------------------------------------------------------------------
(* C10 *)

\* no two rows of the table have the same key
UniqueBy(tbl, K(_)) ==
    \A i, j \in DOMAIN tbl : K(tbl[i]) = K(tbl[j]) => i = j

\* C10: the target never has two print setups of one name, two statements
\* of one account and statement, two bank transactions of one account and
\* transaction id, or two timesheet entry types of one name
C10_OneRowPerNaturalKey ==
    /\ UniqueBy(target.print_setups, LAMBDA r : r.name)
    /\ UniqueBy(target.statements, LAMBDA r : <<r.account_id, r.statement>>)
    /\ UniqueBy(target.bank_transactions,
                LAMBDA r : <<r.account_id, r.transaction_id>>)
    /\ UniqueBy(target.entry_types, LAMBDA r : r.name)

-----------------------------------------------------------------------------
(* Other sources *)

\* sources with rows that refer to rows that are gone
InitRefs ==
    \E registration_id \in {1, 2}, stale \in {Null, 7} :
        InitWith([boskovice |->
                    Boskovice(<<User(1, <<"a">>, E_A, "", 4, {1})>>, FALSE),
                  letovice |->
                    Letovice(<<User(1, <<"a">>, E_a, "Al", 2, {3})>>, COURSE,
                             registration_id, stale, FALSE)],
                 Default(<<>>))

SpecRefs == InitRefs /\ [][Next]_vars

\* the users of the first source, of the second source and of the target
UsersOfBoskovice ==
    {<<User(1, <<"a">>, E_A, "", 4, {1})>>,
     <<User(1, <<"a">>, E_A, "", 4, {1}), User(2, <<"b">>, E_a, "", 5, {})>>,
     <<User(1, <<"a">>, E_A, "", 4, {1}), User(2, <<"b">>, E_b, "", 5, {})>>}

UsersOfLetovice ==
    {<<User(1, <<"a">>, E_a, "Al", 2, {3}), User(2, <<"b">>, E_b, "", 3, {})>>,
     <<User(1, <<"a">>, E_b, "Al", 2, {3})>>}

UsersOfDefault ==
    {<<>>,
     <<User(1, <<"t">>, E_A, "", 1, {})>>,
     <<User(1, <<"a">>, E_b, "", 1, {})>>}

InitUsers ==
    \E b \in UsersOfBoskovice, l \in UsersOfLetovice, d \in UsersOfDefault :
        InitWith([boskovice |-> Boskovice(b, FALSE),
                  letovice |-> Letovice(l, COURSE, 1, Null, FALSE)],
                 Default(d))

SpecUsers == InitUsers /\ [][Next]_vars

\* sources whose print setups, bank statements, bank transactions and
\* timesheet entry types have the same natural keys, or different ones
InitKeys ==
    \E same \in BOOLEAN, kind \in {COURSE, EVENT} :
        InitWith([boskovice |->
                    Boskovice(<<User(1, <<"a">>, E_A, "", 4, {1})>>, FALSE),
                  letovice |->
                    Letovice(<<User(1, <<"a">>, E_a, "Al", 2, {3})>>, kind, 1,
                             Null, same)],
                 Default(<<>>))

SpecKeys == InitKeys /\ [][Next]_vars

-----------------------------------------------------------------------------
(* C11 *)

\* sources and a target with groups of one name
InitGroups ==
    \E name \in {"office", "leaders"},
       local \in {<<>>, <<[id |-> 1, name |-> "leaders", permissions |-> {}]>>} :
        InitWith([boskovice |->
                    Boskovice(<<User(1, <<"a">>, E_A, "", 4, {1})>>, FALSE),
                  letovice |->
                    [Letovice(<<User(1, <<"a">>, E_a, "Al", 2, {3})>>, COURSE,
                              1, Null, FALSE)
                     EXCEPT !.groups = <<[id |-> 3, name |-> name,
                                          permissions |-> {1}]>>]],
                 [Default(<<>>) EXCEPT !.groups = local])

SpecGroups == InitGroups /\ [][Next]_vars

\* the group of the target that a group of a source is mapped to has its name
GroupsMapped(db, m) ==
    \A connection \in Connections :
        \A i \in DOMAIN src[connection].groups :
            LET foreign_group == src[connection].groups[i]
            IN /\ foreign_group.id \in DOMAIN m[connection]
               /\ m[connection][foreign_group.id] \in Ids(db.groups)
               /\ RowOf(db.groups, m[connection][foreign_group.id]).name
                    = foreign_group.name

\* C11: merge_groups, when the storage does not fail, completes and leaves
\* one group of every name in the target, and every group of a source is
\* mapped to the group of the target that has its name
C11_GroupsByName ==
    [][(status = "running" /\ pc = IndexOf("merge_groups")
            /\ failures' = failures)
        => /\ status' = "running"
           /\ UniqueBy(target'.groups, LAMBDA g : g.name)
           /\ GroupsMapped(target', maps'["group_ids_map"])]_vars

-----------------------------------------------------------------------------
(* C12 *)

\* C12: every step of every run, failed or completed, keeps the rows of
\* ImportedIdsMap as they are, and the table never holds two rows of one
\* connection, model name and foreign id
C12_AppendOnly ==
    [][/\ target.imported \subseteq target'.imported
       /\ \A r, s \in target'.imported :
            (/\ r.connection = s.connection
             /\ r.model_name = s.model_name
             /\ r.foreign_id = s.foreign_id) => r = s]_vars

\* the run after a failed run has added rows to those the failed run left
C12_AddedAfterFailure ==
    /\ runs = 2
    /\ prev = "failed"
    /\ base.imported # {}
    /\ target.imported # base.imported

-----------------------------------------------------------------------------
(* C13 *)

\* the identity maps of the types that are merged by a natural key, and the
\* table of each
NaturalKeyMaps ==
    [permission_ids_map |-> "permissions",
     user_ids_map |-> "users",
     folder_ids_map |-> "folders",
     file_ids_map |-> "files",
     bank_account_ids_map |-> "accounts",
     bank_account_statement_ids_map |-> "statements",
     bank_transaction_ids_map |-> "bank_transactions",
     print_setup_ids_map |-> "print_setups",
     school_year_ids_map |-> "school_years",
     school_year_division_ids_map |-> "divisions",
     school_year_period_ids_map |-> "periods",
     leader_ids_map |-> "leaders",
     activity_type_ids_map |-> "activity_types"]

\* the target id that a map of the Command object has for a source id
Image(name, connection, foreign_id) ==
    IF name \in DOMAIN maps /\ foreign_id \in DOMAIN maps[name][connection]
    THEN maps[name][connection][foreign_id]
    ELSE Null

\* rows r and s of one source have the same natural key
SameKey(name, c, r, s) ==
    CASE name = "permission_ids_map" -> r.nk = s.nk
      [] name = "user_ids_map" -> SameEmail(r.email, s.email)
      [] name = "folder_ids_map" ->
            /\ r.name = s.name
            /\ Image(name, c, r.parent_id) = Image(name, c, s.parent_id)
      [] name = "file_ids_map" ->
            /\ r.sha1 = s.sha1
            /\ Image("folder_ids_map", c, r.folder_id)
                    = Image("folder_ids_map", c, s.folder_id)
      [] name = "bank_account_ids_map" -> r.name = s.name
      [] name = "bank_account_statement_ids_map" ->
            /\ r.statement = s.statement
            /\ Image("bank_account_ids_map", c, r.account_id)
                    = Image("bank_account_ids_map", c, s.account_id)
      [] name = "bank_transaction_ids_map" ->
            /\ r.transaction_id = s.transaction_id
            /\ Image("bank_account_ids_map", c, r.account_id)
                    = Image("bank_account_ids_map", c, s.account_id)
      [] name = "print_setup_ids_map" -> r.name = s.name
      [] name = "school_year_ids_map" -> r.year = s.year
      [] name = "school_year_division_ids_map" ->
            /\ r.name = s.name
            /\ Image("school_year_ids_map", c, r.school_year_id)
                    = Image("school_year_ids_map", c, s.school_year_id)
      [] name = "school_year_period_ids_map" ->
            /\ r.name = s.name
            /\ Image("school_year_division_ids_map", c,
                      r.school_year_division_id)
                    = Image("school_year_division_ids_map", c,
                            s.school_year_division_id)
      [] name = "leader_ids_map" ->
            Image("user_ids_map", c, r.user_id)
                = Image("user_ids_map", c, s.user_id)
      [] name = "activity_type_ids_map" -> r.slug = s.slug
      [] OTHER -> FALSE

\* two ids of one source that a map sends to one id of the target
Merged(name, c) ==
    {x \in (DOMAIN maps[name][c]) \X (DOMAIN maps[name][c]) :
        x[1] # x[2] /\ maps[name][c][x[1]] = maps[name][c][x[2]]}

-----------------------------------------------------------------------------
(* C14, C15 *)

\* a user with names, flags and a join date
Person(id, email, first_name, last_name, flags, date_joined) ==
    [User(id, <<"a">>, email, first_name, date_joined, {}) EXCEPT
        !.last_name = last_name,
        !.is_active = flags[1],
        !.is_staff = flags[2],
        !.is_superuser = flags[3]]

\* users of one email with names, flags and join dates that differ
InitPromote ==
    \E b \in {Person(1, E_A, "", "", <<FALSE, FALSE, FALSE>>, 4),
               Person(1, E_A, "Bo", "Bl", <<TRUE, TRUE, FALSE>>, 2)},
       l \in {Person(1, E_a, "Al", "", <<TRUE, FALSE, TRUE>>, 5),
               Person(1, E_a, "", "Lo", <<FALSE, FALSE, FALSE>>, 1)},
       d \in {<<>>,
               <<Person(1, E_a, "", "Ng", <<FALSE, FALSE, FALSE>>, 3)>>,
               <<Person(1, E_A, "Tom", "", <<TRUE, FALSE, TRUE>>, 3)>>} :
        InitWith([boskovice |->
                    Boskovice(<<[b EXCEPT !.groups = {1}]>>, FALSE),
                  letovice |->
                    Letovice(<<[l EXCEPT !.groups = {3}]>>, COURSE, 1, Null,
                             FALSE)],
                 Default(d))

SpecPromote == InitPromote /\ [][Next]_vars

\* the users of the sources that have the email, in the order in which
\* merge_users meets them
Matching(email) ==
    FoldSeq(LAMBDA acc, c :
                acc \o FilterSeq(src[c].users,
                                 LAMBDA u : SameEmail(u.email, email)),
            <<>>, import_connections)

\* merge_users has just been run to its end
MergedUsers ==
    /\ status = "running"
    /\ pc = IndexOf("merge_users")
    /\ status' = "running"

\* the name a user ends with: the one it had, or else the first name that
\* is not empty among those of the matching source users
Kept(name, names) ==
    FoldSeq(LAMBDA acc, x : IF acc = "" THEN x ELSE acc, name, names)

\* C14: after merge_users the first name (last name) of a target user is
\* the one it had before when that was not empty, and otherwise that of the
\* first matching source user whose first name (last name) is not empty; it
\* stays empty only when all of theirs are empty
C14_NamesPromoted ==
    [][MergedUsers =>
        \A i \in DOMAIN target'.users :
            LET v == target'.users[i]
                m == Matching(v.email)
                old == IF i \in DOMAIN target.users THEN target.users[i]
                       ELSE [first_name |-> "", last_name |-> ""]
            IN /\ v.first_name =
                    Kept(old.first_name, [k \in DOMAIN m |-> m[k].first_name])
               /\ v.last_name =
                    Kept(old.last_name, [k \in DOMAIN m |-> m[k].last_name])]_vars

\* a target user whose empty first name was filled from a source and whose
\* last name was kept although a source user has another one
C14_FilledAndKept ==
    /\ status = "running"
    /\ pc > IndexOf("merge_users")
    /\ \E i \in DOMAIN base.users :
        /\ base.users[i].first_name = ""
        /\ target.users[i].first_name # ""
        /\ base.users[i].last_name # ""
        /\ target.users[i].last_name = base.users[i].last_name
        /\ \E c \in Connections : \E k \in DOMAIN src[c].users :
            /\ SameEmail(src[c].users[k].email, base.users[i].email)
            /\ src[c].users[k].last_name \notin {"", base.users[i].last_name}

\* the smallest of a number and the numbers of a sequence
Least(n, s) == FoldSeq(LAMBDA acc, x : IF x < acc THEN x ELSE acc, n, s)

\* C15: after merge_users a flag of a target user is true exactly when it
\* was true before or a matching source user has it true, and the join date
\* is the earliest of the one it had and those of the matching source users
C15_FlagsUpDateDown ==
    [][MergedUsers =>
        \A i \in DOMAIN target'.users :
            LET v == target'.users[i]
                m == Matching(v.email)
                had == i \in DOMAIN target.users
                old == IF had THEN target.users[i]
                       ELSE [is_active |-> FALSE, is_staff |-> FALSE,
                             is_superuser |-> FALSE,
                             date_joined |-> m[1].date_joined]
            IN /\ v.is_active <=>
                    (old.is_active \/ \E k \in DOMAIN m : m[k].is_active)
               /\ v.is_staff <=>
                    (old.is_staff \/ \E k \in DOMAIN m : m[k].is_staff)
               /\ v.is_superuser <=>
                    (old.is_superuser \/ \E k \in DOMAIN m : m[k].is_superuser)
               /\ v.date_joined =
                    Least(old.date_joined,
                          [k \in DOMAIN m |-> m[k].date_joined])]_vars

\* a target user that was made active by one source user while another
\* matching source user is not active, and whose join date moved down
C15_RaisedAndEarlier ==
    /\ status = "running"
    /\ pc > IndexOf("merge_users")
    /\ \E i \in DOMAIN base.users :
        /\ ~base.users[i].is_active
        /\ target.users[i].is_active
        /\ target.users[i].date_joined < base.users[i].date_joined
        /\ \E c \in Connections : \E k \in DOMAIN src[c].users :
            /\ SameEmail(src[c].users[k].email, base.users[i].email)
            /\ ~src[c].users[k].is_active

-----------------------------------------------------------------------------
(* C16 *)

\* the names that can be taken when ensure_unique_username is called
MaxTaken == 6

TakenNames ==
    {<<"a">>, <<"b">>, E_a, E_b,
     UsernameWith(<<"a">>, <<"0", "0", "1">>),
     UsernameWith(<<"a">>, <<"0", "0", "2">>),
     UsernameWith(<<"b">>, <<"0", "0", "1">>)}

\* a call of ensure_unique_username that returns
ensure_unique_username_call ==
    /\ status = "idle"
    /\ call = <<>>
    /\ \E username \in {<<"a">>, <<"b">>},
          email \in {E_a, E_b, <<"a">>, <<>>},
          usernames \in {s \in SUBSET TakenNames : Cardinality(s) <= MaxTaken},
          rnd \in HexSuffixes :
        LET result == ensure_unique_username(username, email, usernames, rnd)
        IN /\ result.returns
           /\ call' = [username |-> username, email |-> email,
                       usernames |-> usernames, rnd |-> rnd,
                       value |-> result.value, warned |-> result.warned]
    /\ UNCHANGED <<src, target, maps, pc, status, out, warnings, runs,
                   failures, prev, base, init, migrated, other, admin>>

\* no run of the command: only calls of the function
InitNames ==
    InitWith([boskovice |-> EmptyDb, letovice |-> EmptyDb], EmptyDb)

NextNames == ensure_unique_username_call

SpecNames == InitNames /\ [][NextNames]_vars

\* the tiers that come before the random suffix, in their order
Tiers(c) == <<c.username, SplitFirst(c.email, "@"), c.email>>

\* the tiers that are not taken
FreeTiers(c) == {i \in 1..3 : Tiers(c)[i] \notin c.usernames}

\* C16: ensure_unique_username returns the first of the requested username,
\* the part of the email before the first "@" and the full email that is not
\* in usernames; when all three are taken it returns the username with "-"
\* and a random suffix; what it returns is never in usernames
C16_TiersInOrder ==
    call # <<>> =>
        /\ call.value \notin call.usernames
        /\ FreeTiers(call) # {} =>
            \E i \in FreeTiers(call) :
                /\ \A j \in FreeTiers(call) : i <= j
                /\ call.value = Tiers(call)[i]
        /\ FreeTiers(call) = {} =>
            \E h \in HexSuffixes :
                call.value = Prefix(call.username, 100) \o <<"-">> \o h

\* a call that found the username and the first part of the email taken
\* and returned the full email
C16_ThirdTier ==
    /\ call # <<>>
    /\ FreeTiers(call) = {3}
    /\ call.value = call.email
    /\ call.email # SplitFirst(call.email, "@")

-----------------------------------------------------------------------------
(* C17 *)

E_c == <<"c", "@", "x">>

\* users of the target that have the usernames
Named(usernames) ==
    [i \in DOMAIN usernames |-> User(i, usernames[i], E_c, "", 1, {})]

\* a target whose users have taken the names that the source users ask for
InitCollide ==
    \E username \in {<<"a">>, <<"b">>},
       taken \in {<<>>,
                  <<<<"a">>>>,
                  <<<<"a">>, E_a>>,
                  <<<<"a">>, E_a, UsernameWith(<<"a">>, <<"0", "0", "1">>)>>,
                  <<<<"a">>, E_a, <<"b">>, E_b>>} :
        InitWith([boskovice |->
                    Boskovice(<<User(1, <<"a">>, E_A, "", 4, {1})>>, FALSE),
                  letovice |->
                    Letovice(<<User(1, username, E_b, "Al", 2, {3})>>, COURSE,
                             1, Null, FALSE)],
                 Default(Named(taken)))

SpecCollide == InitCollide /\ [][Next]_vars

\* the name is the username of a source user with "-" and a suffix
Suffixed(name) ==
    \E c \in Connections : \E k \in DOMAIN src[c].users :
        \E h \in HexSuffixes :
            name = Prefix(src[c].users[k].username, 100) \o <<"-">> \o h

\* C17: merge_users, when the storage does not fail, completes whatever
\* usernames are taken: every user of every source is in user_ids_map, and
\* the warnings logged are the usernames with a random suffix that it gave,
\* one for each, in the order of the new users
C17_CollisionsWarnOnly ==
    [][(status = "running" /\ pc = IndexOf("merge_users")
            /\ failures' = failures)
        => /\ status' = "running"
           /\ \A c \in Connections :
                Ids(src[c].users) \subseteq DOMAIN maps'["user_ids_map"][c]
           /\ warnings' = warnings \o
                FoldSeq(LAMBDA acc, u :
                            IF u.id > Len(target.users) /\ Suffixed(u.username)
                            THEN Append(acc, u.username) ELSE acc,
                        <<>>, target'.users)]_vars

\* merge_users gave one new user a name with a random suffix and logged it,
\* and gave another new user a name of an earlier tier
C17_WarnedOnce ==
    /\ status = "running"
    /\ pc > IndexOf("merge_users")
    /\ Len(warnings) = 1
    /\ \E i, j \in DOMAIN target.users :
        /\ i > Len(base.users)
        /\ j > Len(base.users)
        /\ target.users[i].username = warnings[1]
        /\ ~Suffixed(target.users[j].username)
        /\ target.users[j].username # src.letovice.users[1].username

-----------------------------------------------------------------------------
(* C18, C19 *)

\* a second source whose activity type has the model, whose activity is of
\* the kind, whose registration is for the activity of that id, and that
\* has (typed) or has not an activity type of the model COURSE
InitKinds ==
    \E model \in {EVENT, "club"}, kind \in {COURSE, EVENT, NoModel},
       activity_id \in {1, 7}, typed \in BOOLEAN :
        LET l == Letovice(<<User(1, <<"a">>, E_a, "Al", 2, {3})>>, kind, 1,
                          Null, FALSE)
        IN InitWith([boskovice |->
                        Boskovice(<<User(1, <<"a">>, E_A, "", 4, {1})>>, FALSE),
                     letovice |->
                        [l EXCEPT
                            !.activity_types =
                                IF typed
                                THEN [@ EXCEPT ![1].model = model]
                                ELSE <<[@[1] EXCEPT !.model = model]>>,
                            !.registrations[1].activity_id = activity_id]],
                    Default(<<>>))

SpecKinds == InitKinds /\ [][Next]_vars

\* in every source every course, event and orderable has an activity type
\* of its model
Repaired(s) ==
    \A c \in Connections : \A i \in DOMAIN s[c].activities :
        s[c].activities[i].kind \in {COURSE, EVENT, ORDERABLE}
            => ModelOf(s[c], s[c].activities[i].activity_type_id)
                    = s[c].activities[i].kind

\* C18: fix_activities does not fail when the storage does not, it leaves
\* every course, event and orderable of every source with an activity type
\* of its own model, and merge_activities starts on sources that are so
C18_RepairedBeforeMerge ==
    [][/\ (status = "running" /\ pc = IndexOf("fix_activities")
                /\ failures' = failures)
            => (status' = "running" /\ Repaired(src'))
       /\ (status = "running" /\ pc = IndexOf("merge_activities"))
            => Repaired(src)]_vars

\* the records of a table of a source that the persistent map of the model
\* name does not have and whose discriminator is none of the three
Unknown(t, model_name, Model(_, _)) ==
    {x \in Connections \X (1..3) :
        /\ x[2] \in DOMAIN src[x[1]][t]
        /\ \A r \in MapRows(target, model_name, x[1]) :
                r.foreign_id # src[x[1]][t][x[2]].id
        /\ Model(x[1], src[x[1]][t][x[2]]) \notin {COURSE, EVENT, ORDERABLE}}

UnknownActivities ==
    Unknown("activities", "activities",
            LAMBDA c, a : ModelOf(src[c], a.activity_type_id))

UnknownRegistrations ==
    Unknown("registrations", "registrations",
            LAMBDA c, r : ModelOf(src[c],
                            ActivityOf(src[c], r.activity_id).activity_type_id))

\* C19: merge_activities (merge_registrations) run on a source with an
\* activity (a registration) that is not merged yet and whose activity type
\* model is none of COURSE, EVENT, ORDERABLE fails, and the target is as it
\* was before the phase
C19_UnknownModelIsFatal ==
    [][/\ (status = "running" /\ pc = IndexOf("merge_activities")
                /\ UnknownActivities # {})
            => (status' = "failed" /\ target' = target)
       /\ (status = "running" /\ pc = IndexOf("merge_registrations")
                /\ UnknownRegistrations # {})
            => (status' = "failed" /\ target' = target)]_vars

\* merge_activities has failed on an activity of an unknown model after it
\* had merged the activity of the first source
C19_ActivityRefused ==
    /\ status = "failed"
    /\ pc = IndexOf("merge_activities")
    /\ UnknownActivities # {}
    /\ \E i \in DOMAIN src.boskovice.activities :
            Image("activity_ids_map", "boskovice",
                  src.boskovice.activities[i].id) # Null

-----------------------------------------------------------------------------
(* C20 *)

\* the migrations of a run that has none left to do
AllMigrations ==
    <<"default">> \o import_connections

\* C20: the migration executable is run for the target and then for the
\* sources in their sorted order, each at most once in a run and none after
\* one that exited with a non-zero code; after such an exit the run has
\* failed in a migration phase, no later phase was started and the tables
\* of the target and ImportedIdsMap are as they were when the run began
C20_MigrationFailureAborts ==
    /\ Len(migrated) <= Len(AllMigrations)
    /\ \A i \in DOMAIN migrated :
        /\ migrated[i].settings = AllMigrations[i]
        /\ i < Len(migrated) => migrated[i].returncode = 0
    /\ (\E i \in DOMAIN migrated : migrated[i].returncode # 0) =>
        /\ status = "failed"
        /\ Phases[pc].func \in Migrations
        /\ Len(out) = pc
        /\ pc <= IndexOf("perform_foreign_migrations")
        /\ \A t \in Tables : target[t] = base[t]
        /\ target.imported = base.imported

\* the migration of the first source has failed in a run that began on a
\* target with merged rows; the second source was not migrated
C20_FirstSourceFailed ==
    /\ status = "failed"
    /\ pc = IndexOf("perform_foreign_migrations")
    /\ Len(migrated) = 2
    /\ migrated[2] = [settings |-> import_connections[1], returncode |-> 1]
    /\ base.users # <<>>

-----------------------------------------------------------------------------
(* C21 *)

\* the phase functions with a statement that writes to a source
SourceWriters == {"fix_broken_files", "fix_activities"}

\* file f of a source is as g was, or is g with a path in place of the
\* empty one
PathFilled(g, f) ==
    \/ f = g
    \/ /\ g.file = ""
       /\ f.file \in {"filer_dummy/placeholder.png",
                       "filer_dummy/placeholder.txt"}
       /\ f = [g EXCEPT !.file = f.file]

\* activity x of source s is as y was, or is y, whose activity type was not
\* of its model, with an activity type of s in place of it
Retyped(s, y, x) ==
    \/ x = y
    \/ /\ ModelOf(s, y.activity_type_id) # y.kind
       /\ ModelOf(s, x.activity_type_id) = y.kind
       /\ x = [y EXCEPT !.activity_type_id = x.activity_type_id]

\* source database t is s but for the paths and the activity types that
\* the two functions rewrite
FixedOnly(s, t) ==
    /\ \A n \in DOMAIN EmptyDb \ {"files", "activities"} : t[n] = s[n]
    /\ DOMAIN t.files = DOMAIN s.files
    /\ \A i \in DOMAIN s.files : PathFilled(s.files[i], t.files[i])
    /\ DOMAIN t.activities = DOMAIN s.activities
    /\ \A i \in DOMAIN s.activities :
            Retyped(s, s.activities[i], t.activities[i])

-----------------------------------------------------------------------------
(* C22 *)

Folder(id, name, parent_id) ==
    [id |-> id, name |-> name, parent_id |-> parent_id, owner_id |-> Null]

\* a second source whose folders have the names, and the whole paths, of
\* folders of the first one, or two top-level folders of one name; a target
\* that has no folder, or has the top-level folder of the first source
InitFolders ==
    \E more \in {<<>>,
                  <<Folder(2, "2023", 1)>>,
                  <<Folder(2, "docs", Null)>>,
                  <<Folder(2, "2023", 1), Folder(3, "2023", Null)>>},
       local \in {<<>>,
                  <<Folder(1, "Boskovice", Null)>>,
                  <<Folder(1, "Boskovice", Null), Folder(2, "docs", 1)>>} :
        InitWith([boskovice |->
                    Boskovice(<<User(1, <<"a">>, E_A, "", 4, {1})>>, FALSE),
                  letovice |->
                    [Letovice(<<User(1, <<"a">>, E_a, "Al", 2, {3})>>, COURSE,
                              1, Null, FALSE)
                     EXCEPT !.folders = @ \o more]],
                 [Default(<<>>) EXCEPT !.folders = local])

SpecFolders == InitFolders /\ [][Next]_vars

\* the top-level folders of the target that have the name of a source
TopFolders(db, connection) ==
    {i \in DOMAIN db.folders :
        /\ db.folders[i].parent_id = Null
        /\ db.folders[i].name = capitalize(connection)}

\* the folders of the target that the map m has for the folders of a source
FolderImages(m, connection) ==
    {m[connection][f] : f \in DOMAIN m[connection]}

\* every source has one top-level folder of its name in db; every folder of
\* the source is mapped by m to a folder of db of its name, under the
\* top-level folder when it has no parent and under the image of its parent
\* when it has one; no two folders of db have one parent and one name; no
\* folder of db is the image of folders of two sources
FoldersMerged(db, m) ==
    /\ \A c \in Connections :
        /\ Cardinality(TopFolders(db, c)) = 1
        /\ \A i \in DOMAIN src[c].folders :
            LET f == src[c].folders[i]
            IN /\ f.id \in DOMAIN m[c]
               /\ m[c][f.id] \in DOMAIN db.folders
               /\ db.folders[m[c][f.id]].name = f.name
               /\ IF f.parent_id = Null
                  THEN db.folders[m[c][f.id]].parent_id \in TopFolders(db, c)
                  ELSE /\ f.parent_id \in DOMAIN m[c]
                       /\ db.folders[m[c][f.id]].parent_id = m[c][f.parent_id]
    /\ \A i, j \in DOMAIN db.folders :
            (db.folders[i].parent_id = db.folders[j].parent_id
                /\ db.folders[i].name = db.folders[j].name) => i = j
    /\ \A c, d \in Connections :
            c # d => FolderImages(m, c) \cap FolderImages(m, d) = {}

\* C22: merge_folders, when it returns, leaves one top-level target folder
\* named after each source, has every source folder mapped to a target
\* folder of its name under it, one per (target parent, name), so that no
\* target folder is the image of folders of two sources; run on a target
\* that has these folders it creates none
C22_FoldersPerSource ==
    [][(status = "running" /\ pc = IndexOf("merge_folders")
            /\ status' = "running") =>
        /\ FoldersMerged(target', maps'["folder_ids_map"])
        /\ (\A c \in Connections : TopFolders(target, c) # {}) =>
                (runs > 1 => target'.folders = target.folders)]_vars

\* the second run has ended: both sources have a folder "2023" in a
\* top-level folder "docs", the two are mapped to two target folders, and
\* the run created no folder
C22_SamePathsApart ==
    /\ status = "done" /\ prev = "done"
    /\ \E i \in DOMAIN src.letovice.folders :
        /\ src.letovice.folders[i].name = "2023"
        /\ src.letovice.folders[i].parent_id = 1
        /\ Image("folder_ids_map", "letovice", src.letovice.folders[i].id)
                # Image("folder_ids_map", "boskovice", 2)
        /\ Image("folder_ids_map", "letovice", src.letovice.folders[i].id)
                # Null
    /\ target.folders = base.folders
    /\ init.target.folders # <<>>

-----------------------------------------------------------------------------
(* C23 *)

\* the final message of handle
Success == [label |-> "Successfully merged all data", result |-> ""]

\* the i-th line of the run is the label of the i-th phase with the check
\* mark (ok) or with the cross
Written(i, ok) ==
    /\ out[i].label = Phases[i].label
    /\ out[i].result = (IF Phases[i].long THEN Phases[i].label ELSE "")
                            \o (IF ok THEN " ok" ELSE " failed")

\* what the run has written: a line with the check mark for every phase
\* that returned, after them a line with the cross for the phase that
\* raised, if one did, and after the check mark of the last phase the final
\* message
Reported ==
    /\ status = "idle" => out = <<>>
    /\ status = "running" =>
        /\ Len(out) = pc - 1
        /\ \A i \in DOMAIN out : Written(i, TRUE)
    /\ status = "failed" =>
        /\ pc \in DOMAIN Phases
        /\ Len(out) = pc
        /\ \A i \in 1..(pc - 1) : Written(i, TRUE)
        /\ Written(pc, FALSE)
    /\ status = "done" =>
        /\ Len(out) = NPhases + 1
        /\ \A i \in DOMAIN Phases : Written(i, TRUE)
        /\ out[NPhases + 1] = Success
    /\ \A i \in DOMAIN out : out[i] = Success => i = NPhases + 1

\* C23: a call of perform_operation writes one line for its phase, with the
\* check mark exactly when the run goes on to the next call and with the
\* cross exactly when the run ends there (as it does when the storage
\* fails); so the lines of a run are check marks for the phases before the
\* failing one, the cross for it and nothing after, and the final message
\* comes only after the check marks of all phases
C23_OneGlyphPerPhase ==
    [][/\ Reported'
       /\ (status = "running" /\ pc \in DOMAIN Phases) =>
            /\ Len(out') = Len(out) + 1
            /\ SubSeq(out', 1, Len(out)) = out
            /\ status' \in {"running", "failed"}
            /\ status' = "running" => pc' = pc + 1
            /\ status' = "failed" => pc' = pc /\ target' = target
            /\ failures' # failures => status' = "failed"]_vars

\* a run that wrote check marks for the phases before merge_transactions
\* and the cross for it, which raised on the data of the second source
C23_CrossAfterChecks ==
    /\ status = "failed"
    /\ failures = 0
    /\ pc = IndexOf("merge_transactions")
    /\ Len(out) = pc
    /\ out[pc].result = " failed"
    /\ out[pc - 1].result = " ok"
    /\ out[1].result = "Performing local migrations ok"

-----------------------------------------------------------------------------
(* C24 *)

\* A second process runs the command while the first is about to call
\* merge_transactions.  It has made the calls before merge_transactions on
\* what the first process committed, so that the maps of its Command object
\* are those of the first, and executes the first statement of
\* merge_transactions: its PersistentIdsMap is what ImportedIdsMap holds now
other_load_transaction_ids_map ==
    /\ status = "running"
    /\ pc = IndexOf("merge_transactions")
    /\ other = <<>>
    /\ other' = [at |-> "loaded",
                 maps |-> SetAttr(NewEnv(target, src, maps, 0, <<>>),
                                  "transaction_ids_map",
                                  PersistentIdsMap(
                                      NewEnv(target, src, maps, 0, <<>>),
                                      "transactions")).maps]
    /\ UNCHANGED <<src, target, maps, pc, status, out, warnings, runs,
                   failures, prev, base, init, migrated, call, admin>>

\* The second process executes the rest of merge_transactions with the map
\* it loaded, and commits (the rows it inserts get their ids here).  Its
\* transaction does not see what others commit after it began, but the
\* unique constraint of ImportedIdsMap does: bulk_create(ignore_conflicts=
\* True) leaves out the rows whose key a committed row has
other_merge_transactions ==
    /\ other # <<>>
    /\ other.at = "loaded"
    /\ LET r == merge_transactions_loaded(
                    NewEnv(target, src, other.maps, 0,
                           CHOOSE h \in HexSuffixes : TRUE),
                    other.maps["transaction_ids_map"])
       IN /\ target' = atomic(target, r)
          /\ other' = [at |-> IF r.ok THEN "committed" ELSE "failed",
                       maps |-> r.maps]
    /\ UNCHANGED <<src, maps, pc, status, out, warnings, runs, failures,
                   prev, base, init, migrated, call, admin>>

NextRace ==
    \/ Next
    \/ other_load_transaction_ids_map
    \/ other_merge_transactions

SpecRace == Init /\ [][NextRace]_vars

\* the source transactions that the map the second process loaded does not
\* have and that ImportedIdsMap has by now: another process has merged them
\* since
MergedSince ==
    {x \in Connections \X (1..3) :
        /\ x[2] \in Ids(src[x[1]].transactions)
        /\ x[2] \notin DOMAIN other.maps["transaction_ids_map"][x[1]]
        /\ \E r \in MapRows(target, "transactions", x[1]) :
                r.foreign_id = x[2]}

\* row j of the transactions of db is a copy of an earlier row, and no
\* ImportedIdsMap row of the transactions points to it
Orphan(db, j) ==
    /\ \E i \in 1..(j - 1) :
            db.transactions[j] = [db.transactions[i] EXCEPT !.id = j]
    /\ \A r \in db.imported :
            r.model_name = "transactions" => r.local_id # j

\* C24: when two processes have loaded the map of the transactions before
\* either committed, and one has committed merge_transactions, the commit
\* of the other inserts a second target row for every source transaction
\* the first one merged, and PersistentIdsMap.save keeps the entry of the
\* first: the target has a duplicate row that no entry points to
C24_BothInsert ==
    [][(/\ other # <<>>
        /\ other.at = "loaded"
        /\ other'.at = "committed") =>
            /\ \A c \in Connections :
                    MapRows(target', "transactions", c)
                        = MapRows(target, "transactions", c)
                            \cup {r \in MapRows(target', "transactions", c) :
                                    <<c, r.foreign_id>> \notin MergedSince}
            /\ Len(target'.transactions)
                    >= Len(target.transactions) + Cardinality(MergedSince)
            /\ MergedSince # {} =>
                    \E j \in DOMAIN target'.transactions :
                        j > Len(target.transactions) /\ Orphan(target', j)]_vars

\* both processes have committed merge_transactions, the first process has
\* completed its run, and the transactions of the target have a duplicate
\* that no entry points to
C24_DuplicateRow ==
    /\ status = "done"
    /\ other # <<>>
    /\ other.at = "committed"
    /\ \E j \in DOMAIN target.transactions : Orphan(target, j)
    /\ Len(target.transactions) > Cardinality(
            {r \in target.imported : r.model_name = "transactions"})

-----------------------------------------------------------------------------
(* C25 *)

\* the users who send requests to the admin site: a member of the staff
\* with all permissions on ImportedIdsMap, and a superuser
Requests ==
    {[user |-> [is_staff |-> TRUE, is_superuser |-> su]] : su \in BOOLEAN}

\* has_delete_permission of a ModelAdmin that leaves it as it is inherited
has_delete_permission_Inherited(request, obj) == request.user.is_staff

\* ImportedIdsMapAdmin.has_add_permission
has_add_permission(request) == FALSE

\* ImportedIdsMapAdmin.has_change_permission
has_change_permission(request, obj) == FALSE

\* ImportedIdsMapAdmin.has_delete_permission
has_delete_permission(request, obj) == FALSE

\* the row an operator would add, and the value they would write
Forged ==
    [model_name |-> "transactions", connection |-> "boskovice",
     foreign_id |-> 1, local_id |-> 1]

\* POST to the add view of the admin: PermissionDenied (403) unless
\* has_add_permission(request), a redirect after the row is saved
add_view ==
    /\ \E request \in Requests :
        LET allowed == has_add_permission(request)
        IN /\ target' = IF allowed
                        THEN [target EXCEPT !.imported = @ \cup {Forged}]
                        ELSE target
           /\ admin' = [view |-> "add",
                        status_code |-> IF allowed THEN 302 ELSE 403]
    /\ UNCHANGED <<src, maps, pc, status, out, warnings, runs, failures,
                   prev, base, init, migrated, call, other>>

\* POST to the change view of a row
change_view ==
    /\ \E request \in Requests, obj \in target.imported :
        LET allowed == has_change_permission(request, obj)
        IN /\ target' = IF allowed
                        THEN [target EXCEPT !.imported =
                                (@ \ {obj}) \cup
                                    {[obj EXCEPT !.local_id = Forged.local_id]}]
                        ELSE target
           /\ admin' = [view |-> "change",
                        status_code |-> IF allowed THEN 302 ELSE 403]
    /\ UNCHANGED <<src, maps, pc, status, out, warnings, runs, failures,
                   prev, base, init, migrated, call, other>>

\* POST to the delete view of a row
delete_view ==
    /\ \E request \in Requests, obj \in target.imported :
        LET allowed == has_delete_permission(request, obj)
        IN /\ target' = IF allowed
                        THEN [target EXCEPT !.imported = @ \ {obj}]
                        ELSE target
           /\ admin' = [view |-> "delete",
                        status_code |-> IF allowed THEN 302 ELSE 403]
    /\ UNCHANGED <<src, maps, pc, status, out, warnings, runs, failures,
                   prev, base, init, migrated, call, other>>

NextAdmin ==
    \/ Next
    \/ add_view
    \/ change_view
    \/ delete_view

SpecAdmin == InitGroups /\ [][NextAdmin]_vars

\* C25: every request to add, change or delete a row of ImportedIdsMap in
\* the admin is denied, whoever sends it and whichever row it is for, and
\* leaves the rows of ImportedIdsMap as they were
C25_AdminIsReadOnly ==
    [][/\ admin' # <<>> => admin'.status_code = 403
       /\ admin' # admin => target' = target]_vars

\* the command has merged the sources, and an operator has asked to delete
\* a row of ImportedIdsMap and was denied
C25_DeleteDenied ==
    /\ status = "done"
    /\ target.imported # {}
    /\ admin # <<>>
    /\ admin.view = "delete"
    /\ admin.status_code = 403

-----------------------------------------------------------------------------
(* C26 *)

\* the activity types of db that have no page
Pageless(db) ==
    {i \in DOMAIN db.activity_types : db.activity_types[i].page = Null}

\* C26: pages are created by create_activity_type_pages alone; when it
\* returns, it has created one page for each target activity type that had
\* none and has left the activity types that had a page as they were, so
\* that every activity type has a page of its own; a run on a target whose
\* activity types all have pages creates none
C26_OnePagePerActivityType ==
    [][/\ target'.pages # target.pages =>
            /\ status = "running"
            /\ pc = IndexOf("create_activity_type_pages")
            /\ status' = "running"
       /\ (status = "running" /\ pc = IndexOf("create_activity_type_pages")
                /\ status' = "running") =>
            /\ Pageless(target') = {}
            /\ DOMAIN target'.activity_types = DOMAIN target.activity_types
            /\ \A i \in DOMAIN target.activity_types \ Pageless(target) :
                    target'.activity_types[i] = target.activity_types[i]
            /\ Len(target'.pages)
                    = Len(target.pages) + Cardinality(Pageless(target))
            /\ SubSeq(target'.pages, 1, Len(target.pages)) = target.pages
            /\ \A i \in Pageless(target) :
                    /\ target'.activity_types[i].page > Len(target.pages)
                    /\ target'.activity_types[i].page <= Len(target'.pages)
                    /\ target'.pages[target'.activity_types[i].page].slug
                            = target.activity_types[i].slug
            /\ \A i, j \in DOMAIN target'.activity_types :
                    target'.activity_types[i].page
                        = target'.activity_types[j].page => i = j]_vars

\* the second run has ended after a first that ended: the target has the
\* pages the first run created, one for each of its activity types
C26_PagesOnce ==
    /\ status = "done" /\ prev = "done"
    /\ base.pages # <<>>
    /\ target.pages = base.pages
    /\ Len(target.pages) = Len(target.activity_types)
    /\ Pageless(target) = {}

-----------------------------------------------------------------------------
(* C27 *)

\* the ImportedIdsMap rows of the registrations that a step adds
NewRegistrations ==
    {r \in target'.imported \ target.imported :
        r.model_name = "registrations"}

\* C27: when merge_registrations returns, every registration it inserted
\* is the image of one source registration and has the created of that
\* registration, not the time of the merge that the insert stamped it with
C27_CreatedPreserved ==
    [][(status = "running" /\ pc = IndexOf("merge_registrations")
            /\ status' = "running") =>
        /\ \A j \in (Len(target.registrations) + 1)
                        ..Len(target'.registrations) :
                \E r \in NewRegistrations : r.local_id = j
        /\ \A r \in NewRegistrations :
            /\ r.local_id \in DOMAIN target'.registrations
            /\ r.local_id > Len(target.registrations)
            /\ target'.registrations[r.local_id].created
                    = RowOf(src[r.connection].registrations,
                            r.foreign_id).created]_vars

\* merge_registrations has merged the registrations of both sources: the
\* target has them with the times of the sources, which are not the time of
\* the merge
C27_OldTimes ==
    /\ status = "running"
    /\ pc = IndexOf("merge_registrations") + 1
    /\ Len(target.registrations) = 2
    /\ target.registrations[1].created = src.boskovice.registrations[1].created
    /\ target.registrations[2].created = src.letovice.registrations[1].created
    /\ \A i \in DOMAIN target.registrations :
            target.registrations[i].created # Now

-----------------------------------------------------------------------------
(* C28 *)

\* the tables of the rows that belong to a registration
ChildTables ==
    {"reg_participants", "reg_groups", "reg_group_members",
     "reg_billing_infos"}

\* the rows of table t of db that belong to the registration
ChildrenOf(db, t, registration_id) ==
    {j \in DOMAIN db[t] : db[t][j].registration_id = registration_id}

\* the ImportedIdsMap rows of the participants that a step adds
NewParticipants ==
    {q \in target'.imported \ target.imported :
        q.model_name = "registration-participants"}

\* C28: when merge_registrations returns, the participants, groups, group
\* members and billing infos it inserted all belong to registrations it
\* inserted in this step, and each of these registrations has as many of
\* each as its source registration; every participant of such a source
\* registration has one new entry in the map of the participants, to a new
\* row that is its copy under the new registration; nothing is inserted
\* for a registration that the map had
C28_ChildrenWithParent ==
    [][(status = "running" /\ pc = IndexOf("merge_registrations")
            /\ status' = "running") =>
        /\ \A t \in ChildTables :
            /\ SubSeq(target'[t], 1, Len(target[t])) = target[t]
            /\ \A j \in (Len(target[t]) + 1)..Len(target'[t]) :
                    \E r \in NewRegistrations :
                        target'[t][j].registration_id = r.local_id
            /\ \A r \in NewRegistrations :
                    Cardinality(ChildrenOf(target', t, r.local_id))
                        = Len(Nested(src[r.connection], t, r.foreign_id))
        /\ \A r \in NewRegistrations :
            \A i \in DOMAIN src[r.connection].reg_participants :
                LET p == src[r.connection].reg_participants[i]
                    entries == {q \in MapRows(target', "registration-participants",
                                              r.connection) :
                                    q.foreign_id = p.id}
                IN p.registration_id = r.foreign_id =>
                    /\ Cardinality(entries) = 1
                    /\ entries \subseteq NewParticipants
                    /\ \A q \in entries :
                        /\ q.local_id > Len(target.reg_participants)
                        /\ q.local_id \in DOMAIN target'.reg_participants
                        /\ target'.reg_participants[q.local_id]
                                = [p EXCEPT !.id = q.local_id,
                                            !.registration_id = r.local_id]
        /\ Cardinality(NewParticipants)
                = Len(target'.reg_participants) - Len(target.reg_participants)
       ]_vars

\* the second run has passed merge_registrations: the registrations of
\* both sources were mapped when it began, and the tables of their
\* participants, groups, group members and billing infos are as they were
C28_ChildrenOnce ==
    /\ runs = 2
    /\ status = "running"
    /\ pc = IndexOf("merge_registrations") + 1
    /\ Len(base.registrations) = 2
    /\ \A t \in ChildTables : target[t] # <<>> /\ target[t] = base[t]
    /\ \E q \in target.imported :
        /\ q.model_name = "registration-participants"
        /\ target.reg_participants[q.local_id].registration_id
                = Image("registration_ids_map", q.connection,
                        RowOf(src[q.connection].reg_participants,
                              q.foreign_id).registration_id)

-----------------------------------------------------------------------------
(* C29 *)

\* the discounts of a table of the sources whose amount is zero (Z) or is
\* not, as (connection, id) pairs
Discounts(table, Z) ==
    {x \in Connections \X (1..3) :
        \E i \in DOMAIN src[x[1]][table] :
            /\ src[x[1]][table][i].id = x[2]
            /\ (src[x[1]][table][i].amount = 0) = Z}

\* C29: a source discount whose amount is zero has no ImportedIdsMap row
\* and no target row at any point of any run; when merge_discounts has
\* returned, the target has one row and one ImportedIdsMap row for each of
\* the other source discounts and none else, in the first run and in every
\* later one
C29_ZeroDiscountsSkipped ==
    \A k \in DOMAIN DiscountModels :
        LET m == DiscountModels[k]
            mapped == {r \in target.imported : r.model_name = m.name}
        IN /\ \A r \in mapped :
                <<r.connection, r.foreign_id>> \in Discounts(m.table, FALSE)
           /\ \A j \in DOMAIN target[m.table] : target[m.table][j].amount # 0
           /\ Len(target[m.table]) = Cardinality(mapped)
           /\ (status \in {"running", "done"}
                    /\ pc > IndexOf("merge_discounts")) =>
                {<<r.connection, r.foreign_id>> : r \in mapped}
                    = Discounts(m.table, FALSE)

\* the second run has ended after a first that ended: a source has a
\* course discount of amount zero, and the course discounts of the target
\* and their ImportedIdsMap rows are those the first run left
C29_SkippedTwice ==
    /\ status = "done" /\ prev = "done"
    /\ Discounts("course_discounts", TRUE) # {}
    /\ base.course_discounts # <<>>
    /\ target.course_discounts = base.course_discounts
    /\ MapRows(target, "course-discounts", "letovice")
            = MapRows(base, "course-discounts", "letovice")

-----------------------------------------------------------------------------
(* C30 *)

\* the maps of the Command object at the end of one run on the databases
\* as they were before the first run
FirstMaps ==
    handle(init.target, init.src, CHOOSE h \in HexSuffixes : TRUE).maps

\* C30: when a run has completed on the target that a completed first run
\* left, the map of every type that is merged by a natural key sends every
\* source id to the target id that the map of the first run sent it to
C30_MapsRederived ==
    (runs = 2 /\ status = "done" /\ prev = "done") =>
        \A name \in DOMAIN NaturalKeyMaps : maps[name] = FirstMaps[name]

-----------------------------------------------------------------------------
(* C31 *)

\* the names of the non-default entries of settings.DATABASES, ascending
SortedNames == <<"boskovice", "letovice">>

\* the identity maps of the Command object whose rows the model carries, and
\* the table of each
MapTables ==
    NaturalKeyMaps @@
    [group_ids_map |-> "groups",
     activity_ids_map |-> "activities",
     activity_variant_ids_map |-> "variants",
     registration_ids_map |-> "registrations",
     transaction_ids_map |-> "transactions",
     timesheet_ids_map |-> "timesheets",
     timesheet_entry_ids_map |-> "timesheet_entries"]

\* the target ids that map m has for the records of one source
Targets(m, connection) ==
    {m[connection][f] : f \in DOMAIN m[connection]}

\* this step ran the phase that assigns the map name, and every row it
\* inserted for a record of a source has a smaller id than every row it
\* inserted for a record of a later source only
SourceBySource(name) ==
    (status = "running" /\ status' = "running"
        /\ name \notin DOMAIN maps /\ name \in DOMAIN maps') =>
    LET t == MapTables[name]
        new == (Len(target[t]) + 1)..Len(target'[t])
        m == maps'[name]
    IN \A a, b \in DOMAIN SortedNames :
        a < b =>
            \A i \in new \cap Targets(m, SortedNames[a]),
               j \in (new \cap Targets(m, SortedNames[b]))
                        \ Targets(m, SortedNames[a]) : i < j

\* a step that writes a line of a phase writes the line of the phase that
\* follows the last phase written in this run, and leaves handle at that
\* phase or after it
PhaseByPhase ==
    (status = "running" /\ Len(out') = Len(out) + 1 /\ pc <= NPhases) =>
        /\ pc = Len(out) + 1
        /\ out'[Len(out')].label = Calls[pc].label
        /\ pc' \in {pc, pc + 1}
        /\ (pc' = pc) = (status' = "failed")

YearsAscending ==
    \A i, j \in (Len(target.school_years) + 1)..Len(target'.school_years) :
        i < j => target'.school_years[i].year < target'.school_years[j].year

-----------------------------------------------------------------------------
(* C32 *)

\* the fields of a target row that a source record with the natural key of
\* the row may change (groups and user_permissions are relations to which
\* merge_users adds)
Changeable(t) ==
    CASE t = "users" -> {"first_name", "last_name", "is_active", "is_staff",
                         "is_superuser", "date_joined", "groups",
                         "user_permissions"}
      [] t = "school_years" -> {"active"}
      [] OTHER -> {}

\* the fields that a new target row has from the source record it is a copy
\* of, as they are
Copied(t) ==
    CASE t = "folders" -> {"name"}
      [] t = "files" -> {"sha1", "file", "ctype", "modified_at"}
      [] t = "accounts" -> {"name"}
      [] t = "statements" -> {"statement"}
      [] t = "bank_transactions" -> {"transaction_id"}
      [] t = "print_setups" -> {"name"}
      [] t = "school_years" -> {"year"}
      [] t = "divisions" -> {"name"}
      [] t = "periods" -> {"name"}
      [] t = "activity_types" -> {"slug", "model"}
      [] OTHER -> {}

\* the references that a new target row has from the source record it is a
\* copy of, through the map of the type referred to
Translated(t) ==
    CASE t = "files" -> {<<"owner_id", "user_ids_map">>,
                         <<"folder_id", "folder_ids_map">>}
      [] t = "leaders" -> {<<"photo_id", "file_ids_map">>,
                           <<"user_id", "user_ids_map">>}
      [] t = "activity_types" ->
            {<<"reg_print_setup_id", "print_setup_ids_map">>}
      [] t = "divisions" -> {<<"school_year_id", "school_year_ids_map">>}
      [] t = "periods" ->
            {<<"school_year_division_id", "school_year_division_ids_map">>}
      [] OTHER -> {}

\* the target id that map m has for a source id, None for None and for an
\* id that the map does not have
Through(m, connection, id) ==
    IF id \in DOMAIN m[connection] THEN m[connection][id] ELSE Null

\* the source that sorts first among those with a record mapped to row i
FirstSource(m, i) ==
    SortedNames[CHOOSE a \in DOMAIN SortedNames :
                    /\ i \in Targets(m, SortedNames[a])
                    /\ \A b \in 1..(a - 1) :
                            i \notin Targets(m, SortedNames[b])]

\* this step ran the natural-key phase of the map name to its end: a row
\* that was in the table differs in the changeable fields at most, and a row
\* that the step inserted has the fields of a record of the first source
\* that is mapped to it
FirstWriteWins(name) ==
    (status = "running" /\ status' = "running"
        /\ name \notin DOMAIN maps /\ name \in DOMAIN maps') =>
    LET t == NaturalKeyMaps[name]
        m == maps'[name]
    IN /\ \A i \in DOMAIN target[t] :
            \A field \in DOMAIN target[t][i] \ Changeable(t) :
                target'[t][i][field] = target[t][i][field]
       /\ \A i \in ((Len(target[t]) + 1)..Len(target'[t]))
                    \cap UNION {Targets(m, c) : c \in Connections} :
            LET c == FirstSource(m, i)
                row == target'[t][i]
            IN \E k \in DOMAIN src[c][t] :
                LET record == src[c][t][k]
                IN /\ m[c][record.id] = i
                   /\ \A field \in Copied(t) : row[field] = record[field]
                   /\ \A x \in Translated(t) :
                        row[x[1]] = Through(maps'[x[2]], c, record[x[1]])

\* C32: a source record whose natural key is that of a target row, whether
\* the row was there before the phase or was inserted in it for an earlier
\* record, writes nothing to the fields of the row, but for the promotion
\* fields of a user and the active flag of a school year
C32_FirstWriteWins ==
    [][\A name \in DOMAIN NaturalKeyMaps : FirstWriteWins(name)]_vars

\* the second run has merged the leaders: the leader of the second source,
\* who has a photo, is mapped to the row that the first run made of the
\* leader of the first source, and the row has no photo
C32_LeaderKeptAsFirst ==
    /\ runs = 2
    /\ status = "running"
    /\ pc = IndexOf("merge_leaders") + 1
    /\ Len(base.leaders) > 0
    /\ src.letovice.leaders[1].photo_id # Null
    /\ maps.leader_ids_map.letovice[1] = maps.leader_ids_map.boskovice[1]
    /\ target.leaders[maps.leader_ids_map.letovice[1]].photo_id = Null
    /\ target.leaders = base.leaders

-----------------------------------------------------------------------------
(* C33 *)

\* C33: merge_activity_types of a run that follows a run in which it was
\* committed, on the same sources, adds no row to the attachments of the
\* activity types
C33_AttachmentsOnce ==
    [][(/\ runs >= 2
        /\ Len(base.activity_types) > 0
        /\ status = "running"
        /\ pc = IndexOf("merge_activity_types"))
            => Len(target'.attachments) = Len(target.attachments)]_vars

-----------------------------------------------------------------------------
(* C34 *)

\* the model names of ImportedIdsMap whose rows the model carries, and the
\* table of each
PersistentTables ==
    {[model_name |-> p.model_name, table |-> p.table] : p \in PersistentPhases}
    \cup {[model_name |-> "registration-participants",
           table |-> "reg_participants"]}
    \cup {[model_name |-> DiscountModels[i].name,
           table |-> DiscountModels[i].table] : i \in DOMAIN DiscountModels}

\* C34: in what is committed to the target, after completed and aborted
\* runs, every ImportedIdsMap row has the id of a row of the table of its
\* model, and every row that a run added to such a table is the local_id of
\* exactly one ImportedIdsMap row of the model
C34_MapAndRowsAgree ==
    \A p \in PersistentTables :
        LET rows == {r \in target.imported : r.model_name = p.model_name}
        IN /\ \A r \in rows : r.local_id \in DOMAIN target[p.table]
           /\ \A i \in (Len(init.target[p.table]) + 1)..Len(target[p.table]) :
                Cardinality({r \in rows : r.local_id = i}) = 1

\* a run that was aborted in the middle of the persistent-map phases has
\* been followed by a run that completed
C34_AfterAbortAndRerun ==
    /\ status = "done"
    /\ prev = "failed"
    /\ Len(base.registrations) > 0
    /\ Len(base.transactions) < Len(target.transactions)
    /\ \E r \in base.imported : r.model_name = "registrations"
    /\ \E r \in target.imported \ base.imported :
            r.model_name = "transactions"

-----------------------------------------------------------------------------
(* C35 *)

\* the number of users of the sources
NUsers ==
    FoldSeq(LAMBDA n, c : n + Len(src[c].users), 0, import_connections)

\* the sources with the first n users only, in the order in which
\* merge_users takes them
UsersUpTo(n) ==
    [c \in Connections |->
        LET earlier ==
                FoldSeq(LAMBDA k, d : k + Len(src[d].users), 0,
                        SubSeq(import_connections, 1,
                               (CHOOSE i \in DOMAIN import_connections :
                                    import_connections[i] = c) - 1))
            left == IF n > earlier THEN n - earlier ELSE 0
        IN [src[c] EXCEPT
                !.users = SubSeq(@, 1, IF left < Len(@) THEN left ELSE Len(@))]]

\* merge_users after the n-th source user: its environment
AfterUser(n, rnd) ==
    merge_users(NewEnv(target, UsersUpTo(n), maps, 0, rnd))

\* the usernames of the users
UsernamesOf(users) == {users[i].username : i \in DOMAIN users}

\* the users have pairwise distinct usernames
DistinctUsernames(users) ==
    \A i, j \in DOMAIN users :
        users[i].username = users[j].username => i = j

\* C35: when merge_users is about to run, then after each source user it
\* processes the set usernames is the set of the usernames of the target
\* users, the usernames of the target users are pairwise distinct if they
\* were before the phase, and every user that was in the target keeps the
\* username it had
C35_UsernamesUnique ==
    (/\ status = "running"
     /\ pc = IndexOf("merge_users")
     /\ Phases[pc].reads \subseteq DOMAIN maps) =>
        \A rnd \in HexSuffixes : \A n \in 0..NUsers :
            LET a == AfterUser(n, rnd)
                before == IF n = 0 THEN target.users
                          ELSE AfterUser(n - 1, rnd).db.users
            IN /\ a.loc.usernames = UsernamesOf(a.db.users)
               /\ DistinctUsernames(target.users)
                    => DistinctUsernames(a.db.users)
               /\ \A i \in DOMAIN before :
                    a.db.users[i].username = before[i].username

\* merge_users has run on a target that had a user: a source user with the
\* email of that user is mapped to it and it has the username it had, and a
\* source user whose username was taken is a new user under another name
C35_MatchedAndRenamed ==
    /\ runs = 1
    /\ status = "running"
    /\ pc = IndexOf("merge_users") + 1
    /\ Len(base.users) = 1
    /\ target.users[1].username = base.users[1].username
    /\ \E c \in Connections : 1 \in Targets(maps.user_ids_map, c)
    /\ \E c \in Connections : \E k \in DOMAIN src[c].users :
        LET u == src[c].users[k]
            i == maps.user_ids_map[c][u.id]
        IN /\ i > 1
           /\ u.username = base.users[1].username
           /\ target.users[i].username # u.username
    /\ DistinctUsernames(target.users)

-----------------------------------------------------------------------------
(* C36 *)

\* the maps of the phases that merge a type by its natural key (the map of
\* the permissions is loaded, not merged: load_auth_permissions_map has no
\* entry for a source permission that the target does not have)
MergedByKey == DOMAIN NaturalKeyMaps \ {"permission_ids_map"}

\* this step ran the phase of the map name to its end, and the map has an
\* entry for the id of every record of the type in every source
Total(name) ==
    (status = "running" /\ status' = "running"
        /\ name \notin DOMAIN maps /\ name \in DOMAIN maps') =>
        \A c \in Connections :
            Ids(src'[c][NaturalKeyMaps[name]]) \subseteq DOMAIN maps'[name][c]

\* C36: when a phase that merges a type by its natural key completes, in
\* the first run or in a later one, its map has an entry for every record
\* of the type in every source
C36_MapsAreTotal ==
    [][\A name \in MergedByKey : Total(name)]_vars

\* the second run has merged the activity types: it inserted none, and the
\* maps of the leaders and of the activity types have all source records
C36_TotalWhenAllMatched ==
    /\ runs = 2
    /\ status = "running"
    /\ pc = IndexOf("merge_activity_types") + 1
    /\ Len(base.activity_types) > 0
    /\ target.activity_types = base.activity_types
    /\ target.leaders = base.leaders
    /\ \A c \in Connections :
        /\ DOMAIN maps.activity_type_ids_map[c] = Ids(src[c].activity_types)
        /\ DOMAIN maps.leader_ids_map[c] = Ids(src[c].leaders)
        /\ src[c].leaders # <<>>

-----------------------------------------------------------------------------
(* C37 *)

\* a second source with the folder "2023" in "docs", as the first one has,
\* and a file in a folder, or in none, with the content of a file of the
\* first source
InitFiles ==
    \E folder_id \in {Null, 1, 2}, sha1 \in {"h1", "h2", "h3"} :
        InitWith([boskovice |->
                    Boskovice(<<User(1, <<"a">>, E_A, "", 4, {1})>>, FALSE),
                  letovice |->
                    [Letovice(<<User(1, <<"a">>, E_a, "Al", 2, {3})>>, COURSE,
                              1, Null, FALSE)
                     EXCEPT !.folders = @ \o <<Folder(2, "2023", 1)>>,
                            !.files[2].folder_id = folder_id,
                            !.files[2].sha1 = sha1]],
                 Default(<<>>))

SpecFiles == InitFiles /\ [][Next]_vars

\* the files f of source c and g of source d are mapped to one target file
OneTargetFile(c, f, d, g) ==
    maps.file_ids_map[c][f.id] = maps.file_ids_map[d][g.id]

\* C37: when merge_files has run, a file of one source and a file of
\* another are mapped to one target file only if neither has a mapped
\* folder and the two have the same content hash
C37_FilesOfFoldersApart ==
    (status = "running" /\ pc = IndexOf("merge_files") + 1) =>
        \A c, d \in Connections : c # d =>
            \A i \in DOMAIN src[c].files, j \in DOMAIN src[d].files :
                LET f == src[c].files[i]
                    g == src[d].files[j]
                IN OneTargetFile(c, f, d, g) =>
                    /\ Through(maps.folder_ids_map, c, f.folder_id) = Null
                    /\ Through(maps.folder_ids_map, d, g.folder_id) = Null
                    /\ f.sha1 = g.sha1

\* merge_files has run: the files of the two sources that are in "2023" of
\* "docs" and have one content hash are two target files, and the files of
\* the two sources that are in no folder and have one content hash are one
C37_ApartAndMerged ==
    /\ status = "running"
    /\ pc = IndexOf("merge_files") + 1
    /\ src.boskovice.files[1].folder_id = 2
    /\ src.letovice.files[2].folder_id = 2
    /\ src.boskovice.files[1].sha1 = src.letovice.files[2].sha1
    /\ ~OneTargetFile("boskovice", src.boskovice.files[1],
                      "letovice", src.letovice.files[2])
    /\ src.boskovice.files[2].folder_id = Null
    /\ src.letovice.files[1].folder_id = Null
    /\ OneTargetFile("boskovice", src.boskovice.files[2],
                     "letovice", src.letovice.files[1])

-----------------------------------------------------------------------------
(* C38 *)

\* the tables of the messages
MessageTables == {"messages", "message_recipients", "message_attachments"}

\* C38: whatever runs were made, the target has the messages, recipients
\* and message attachments it had before the first run, ImportedIdsMap has
\* no row of the model "messages", and the Command object has no map of the
\* messages
C38_MessagesNotMerged ==
    /\ \A t \in MessageTables : target[t] = init.target[t]
    /\ \A r \in target.imported : r.model_name # "messages"
    /\ "message_ids_map" \notin DOMAIN maps

\* two runs have completed on sources that have messages, with a recipient
\* and an attachment, and the target has no message
C38_SourcesHaveMessages ==
    /\ status = "done" /\ prev = "done"
    /\ \A c \in Connections : src[c].messages # <<>>
    /\ src.boskovice.message_recipients # <<>>
    /\ src.boskovice.message_attachments # <<>>
    /\ target.messages = <<>>
    /\ Len(target.users) > 0 /\ Len(target.files) > 0

-----------------------------------------------------------------------------
(* C39 *)

\* the types that are merged by a natural key and have rows of their own
\* (children) that are merged with them
Parents ==
    {[map |-> "leader_ids_map", table |-> "leaders",
      children |-> "leader_contacts", parent |-> "leader_id"],
     [map |-> "resource_ids_map", table |-> "resources",
      children |-> "availabilities", parent |-> "resource_id"]}

\* the children in db of the row id of the parent type p, without their ids
\* and the reference to the parent
Children(db, p, id) ==
    LET rows == FilterSeq(db[p.children], LAMBDA r : r[p.parent] = id)
    IN [k \in DOMAIN rows |->
            [rows[k] EXCEPT !.id = Null, ![p.parent] = Null]]

\* the school years of a leader that is a row of a source, in the target
LeaderYears(m, c, record) ==
    {m[c][y] : y \in record.school_years}

\* this step ran the phase of the parent type p to its end: a parent row
\* that was in the target has the children it had, and a parent row that
\* the step inserted has the children of the record of the first source
\* that is mapped to it, and of no other record
ChildrenOfFirst(p) ==
    (status = "running" /\ status' = "running"
        /\ p.map \notin DOMAIN maps /\ p.map \in DOMAIN maps') =>
    LET m == maps'[p.map]
    IN /\ \A i \in DOMAIN target[p.table] :
            /\ Children(target', p, i) = Children(target, p, i)
            /\ target'[p.table][i] = target[p.table][i]
       /\ \A i \in (Len(target[p.table]) + 1)..Len(target'[p.table]) :
            LET c == FirstSource(m, i)
            IN \E k \in DOMAIN src[c][p.table] :
                LET record == src[c][p.table][k]
                IN /\ m[c][record.id] = i
                   /\ Children(target', p, i) = Children(src[c], p, record.id)
                   /\ p.table = "leaders" =>
                        target'.leaders[i].school_years =
                            LeaderYears(maps'.school_year_ids_map, c, record)

\* C39: when merge_leaders (merge_resources) completes, a target leader
\* (resource) has the contacts and school years (availabilities) of the
\* first source record that was mapped to it when the phase inserted it,
\* and those it had when it was in the target before; a source record
\* matched to an existing row adds none
C39_ChildrenOfFirstRecord ==
    [][\A p \in Parents : ChildrenOfFirst(p)]_vars

\* merge_resources has run in the first run: the leaders of the two sources
\* are one target leader, which has the contact and the school year of the
\* first source and not those of the second; the resources "hall" of the
\* two sources are one target resource with the availability of the first
C39_SecondRecordAddsNone ==
    /\ runs = 1
    /\ status = "running"
    /\ pc = IndexOf("merge_resources") + 1
    /\ maps.leader_ids_map.boskovice[1] = maps.leader_ids_map.letovice[1]
    /\ \E i \in DOMAIN src.letovice.leader_contacts :
            src.letovice.leader_contacts[i].leader_id = 1
    /\ \A i \in DOMAIN target.leader_contacts :
            target.leader_contacts[i].contact = "tel"
    /\ target.leaders[maps.leader_ids_map.letovice[1]].school_years =
            LeaderYears(maps.school_year_ids_map, "boskovice",
                        src.boskovice.leaders[1])
    /\ LeaderYears(maps.school_year_ids_map, "letovice",
                   src.letovice.leaders[1])
            # LeaderYears(maps.school_year_ids_map, "boskovice",
                          src.boskovice.leaders[1])
    /\ maps.resource_ids_map.boskovice[1] = maps.resource_ids_map.letovice[1]
    /\ \A i \in DOMAIN target.availabilities :
            target.availabilities[i].resource_id
                    = maps.resource_ids_map.letovice[1]
                => target.availabilities[i].slot = "mon"
    /\ Len(target.availabilities) = 2

=============================================================================
